---- MODULE Spec2Model ----
(***************************************************************************)
(* Model of gvt_scripts.search_shp_dir: the peewee-backed metadata index   *)
(* (models.Database) and the directory ingestion of core.py.               *)
(*                                                                         *)
(* Tables are sequences of rows; the id of a row (peewee AutoField on      *)
(* sqlite, no row is ever deleted) is its index in the sequence.           *)
(* Text that the code parses is a sequence of one-character strings.       *)
(* A float is the integer  value * 10^Scale  (decimal texts of at most     *)
(* MaxText characters are exact at that scale).                            *)
(* The audit columns created_at / updated_at are written once by the       *)
(* column default and never read or written again; they are not modelled.  *)
(***************************************************************************)
EXTENDS Integers, Sequences, FiniteSets, TLC

\* ------------------------------------------------------------------ bounds
MaxText == 3
MaxRows == 3
MaxRowsQ == 4

Scale == MaxText

RECURSIVE Pow10(_)
Pow10(n) == IF n <= 0 THEN 1 ELSE 10 * Pow10(n - 1)

SeqToSet(s) == {s[i] : i \in 1..Len(s)}

\* the float of an integer
Float(n) == n * Pow10(Scale)

\* ------------------------------------------------------- python built-ins
Whitespace == {" ", "\n", "\t"}
Digits == {"0", "1", "2", "3", "4", "5", "6", "7", "8", "9"}

DigitVal(c) ==
    CASE c = "0" -> 0 [] c = "1" -> 1 [] c = "2" -> 2 [] c = "3" -> 3
      [] c = "4" -> 4 [] c = "5" -> 5 [] c = "6" -> 6 [] c = "7" -> 7
      [] c = "8" -> 8 [] c = "9" -> 9

\* str.strip()
RECURSIVE LStrip(_)
LStrip(s) == IF s # <<>> /\ Head(s) \in Whitespace THEN LStrip(Tail(s)) ELSE s

RECURSIVE RStrip(_)
RStrip(s) ==
    IF s # <<>> /\ s[Len(s)] \in Whitespace
    THEN RStrip(SubSeq(s, 1, Len(s) - 1))
    ELSE s

PyStrip(s) == RStrip(LStrip(s))

\* str.replace(old, new, 1): only the first occurrence is replaced
PyReplaceFirstNone(s, old, new) == s

RECURSIVE PyReplaceFirst(_, _, _)
PyReplaceFirst(s, old, new) ==
    IF s = <<>> THEN <<>>
    ELSE IF Head(s) = old THEN <<new>> \o Tail(s)
    ELSE <<Head(s)>> \o PyReplaceFirst(Tail(s), old, new)

RECURSIVE DigitsVal(_)
DigitsVal(s) ==
    IF s = <<>> THEN 0 ELSE 10 * DigitsVal(SubSeq(s, 1, Len(s) - 1)) + DigitVal(s[Len(s)])

AllDigits(s) == \A i \in 1..Len(s) : s[i] \in Digits

Unsigned(s) == IF s # <<>> /\ Head(s) \in {"-", "+"} THEN Tail(s) ELSE s
SignOf(s) == IF s # <<>> /\ Head(s) = "-" THEN -1 ELSE 1

\* value of a python object: an int, a float, a str or None
PInt(n) == [t |-> "int", v |-> n]
PStr(s) == [t |-> "str", s |-> s]
PFloat(x) == [t |-> "float", v |-> x]
PNone == [t |-> "none"]

Ok(v) == [ok |-> TRUE, v |-> v]
Fail(e) == [ok |-> FALSE, err |-> e]

\* float(str): [sign] digits [. digits] | [sign] . digits, surrounding
\* whitespace ignored (texts here hold no exponent, underscore, inf or nan)
PyFloatStr(s) ==
    LET b == Unsigned(PyStrip(s))
        dots == {i \in 1..Len(b) : b[i] = "."}
        dot == IF dots = {} THEN Len(b) + 1 ELSE CHOOSE i \in dots : \A j \in dots : i <= j
        ip == SubSeq(b, 1, dot - 1)
        fp == SubSeq(b, dot + 1, Len(b))
    IN  IF AllDigits(ip) /\ AllDigits(fp) /\ Len(ip) + Len(fp) > 0
        THEN Ok(SignOf(PyStrip(s))
                  * (DigitsVal(ip) * Pow10(Scale) + DigitsVal(fp) * Pow10(Scale - Len(fp))))
        ELSE Fail("ValueError")

\* int(x)
PyIntLenient(x) ==
    CASE x.t = "int" -> Ok(x.v)
      [] x.t = "str" ->
            LET b == Unsigned(PyStrip(x.s))
            IN  IF b # <<>> /\ AllDigits(b)
                THEN Ok(SignOf(PyStrip(x.s)) * DigitsVal(b))
                ELSE Ok(0)
      [] OTHER -> Ok(0)

PyInt(x) ==
    CASE x.t = "int" -> Ok(x.v)
      [] x.t = "str" ->
            LET b == Unsigned(PyStrip(x.s))
            IN  IF b # <<>> /\ AllDigits(b)
                THEN Ok(SignOf(PyStrip(x.s)) * DigitsVal(b))
                ELSE Fail("ValueError")
      [] OTHER -> Fail("TypeError")

\* float(x.replace(",", ".", 1)) as store_dbfreg applies it to cloudperce
CommaFloat(x) ==
    IF x.t = "str" THEN PyFloatStr(PyReplaceFirst(x.s, ",", "."))
    ELSE Fail("AttributeError")

\* ---------------------------------------------------------------- pathlib
\* a path is its sequence of components; str(path) joins them with "/"
RECURSIVE PathStr(_)
PathStr(p) ==
    IF Len(p) = 0 THEN <<".">>
    ELSE IF Len(p) = 1 THEN p
    ELSE PathStr(SubSeq(p, 1, Len(p) - 1)) \o <<"/", p[Len(p)]>>

\* pathlib.Path(str): split on "/", "." components dropped
PathOf(s) == SelectSeq(s, LAMBDA c : c \notin {"/", "."})

\* path.parent.name
ParentName(p) == IF Len(p) >= 2 THEN p[Len(p) - 1] ELSE ""

\* a file is [dir, stem, ext]: the path  dir / "stem.ext"
File(dir, stem, ext) == [dir |-> dir, stem |-> stem, ext |-> ext]

\* path.with_suffix(".jpg")
WithSuffix(f, ext) == [f EXCEPT !.ext = ext]

\* str(file path)
FileStr(f) == PathStr(f.dir) \o <<"/", f.stem, ".", f.ext>>

\* ------------------------------------------------------------- the store
\* mdirs .. jgws: the five tables; fs: the archive on disk (read only, held
\* as the key of its contents, see Disk); out: what the last call returned
\* or raised
VARIABLES mdirs, dbfs, prjs, axes, jgws, fs, out

vars == <<mdirs, dbfs, prjs, axes, jgws, fs, out>>

\* the five tables of Database
DB == [mdirs |-> mdirs, dbfs |-> dbfs, prjs |-> prjs, axes |-> axes, jgws |-> jgws]

EmptyDB == [mdirs |-> <<>>, dbfs |-> <<>>, prjs |-> <<>>, axes |-> <<>>, jgws |-> <<>>]

\* result of an operation: the store it leaves, the exception ("none" when
\* it returns) and the id of the row it returns (0 when it returns none)
Res(db, err, ret) == [db |-> db, err |-> err, ret |-> ret]

\* the argument mdir_path_or_reg: a path, or a saved MetaDataDirectory
MPath(p) == [t |-> "path", p |-> p]
MReg(id) == [t |-> "reg", id |-> id]

\* MetaDataDirectory.get_or_create(date_str=.., defaults={"path_str": ..}):
\* the row with that date_str if there is one, else a new row
ModelGetOrCreateAlwaysCreate(tbl, date_str, path_str) ==
    [tbl |-> Append(tbl, [date_str |-> date_str, path_str |-> path_str]),
     id |-> Len(tbl) + 1]

ModelGetOrCreateUpsert(tbl, date_str, path_str) ==
    LET found == {i \in 1..Len(tbl) : tbl[i].date_str = date_str}
    IN  IF found # {}
        THEN LET i == CHOOSE i \in found : TRUE
             IN  [tbl |-> [tbl EXCEPT ![i].path_str = path_str], id |-> i]
        ELSE [tbl |-> Append(tbl, [date_str |-> date_str, path_str |-> path_str]),
              id |-> Len(tbl) + 1]

ModelGetOrCreateNoInsert(tbl, date_str, path_str) ==
    LET found == {i \in 1..Len(tbl) : tbl[i].date_str = date_str}
    IN  IF found # {}
        THEN [tbl |-> tbl, id |-> CHOOSE i \in found : TRUE]
        ELSE [tbl |-> tbl, id |-> Len(tbl) + 1]

ModelGetOrCreate(tbl, date_str, path_str) ==
    LET found == {i \in 1..Len(tbl) : tbl[i].date_str = date_str}
    IN  IF found # {}
        THEN [tbl |-> tbl, id |-> CHOOSE i \in found : \A j \in found : i <= j]
        ELSE [tbl |-> Append(tbl, [date_str |-> date_str, path_str |-> path_str]),
              id |-> Len(tbl) + 1]

\* Database.get_or_create_mdir
get_or_create_mdir(db, m) ==
    IF m.t = "reg" THEN Res(db, "none", m.id)
    ELSE LET g == ModelGetOrCreate(db.mdirs, ParentName(m.p), PathStr(m.p))
         IN  Res([db EXCEPT !.mdirs = g.tbl], "none", g.id)

\* MetaDataDirectoryMixin.path
MdirPath(row) == PathOf(row.path_str)

\* first exception of a sequence of conversions evaluated left to right
RECURSIVE FirstErr(_)
FirstErr(rs) ==
    IF rs = <<>> THEN "none"
    ELSE IF ~Head(rs).ok THEN Head(rs).err
    ELSE FirstErr(Tail(rs))

\* Database.store_dbfreg
store_dbfregValidateFirst(db, m, rec) ==
    LET g == get_or_create_mdir(db, m)
        err == FirstErr(<<PyInt(rec.tarsize), CommaFloat(rec.cloudperce), PyInt(rec.orbitid),
                          PyInt(rec.scenepath), PyInt(rec.scenerow)>>)
    IN  IF err # "none" THEN Res(db, err, 0)
        ELSE Res([g.db EXCEPT !.dbfs = Append(@,
                     [md_directory |-> g.ret,
                      batch |-> rec.batch,
                      tarsize |-> PyInt(rec.tarsize).v,
                      satellite |-> rec.satellite,
                      sensorid |-> rec.sensorid,
                      acquisitio |-> rec.acquisitio,
                      cloudperce |-> CommaFloat(rec.cloudperce).v,
                      orbitid |-> PyInt(rec.orbitid).v,
                      scenepath |-> PyInt(rec.scenepath).v,
                      scenerow |-> PyInt(rec.scenerow).v])],
                 "none", Len(g.db.dbfs) + 1)

store_dbfreg(db, m, rec) ==
    LET g == get_or_create_mdir(db, m)
        tarsize == PyInt(rec.tarsize)
        cloudperce == CommaFloat(rec.cloudperce)
        orbitid == PyInt(rec.orbitid)
        scenepath == PyInt(rec.scenepath)
        scenerow == PyInt(rec.scenerow)
        err == FirstErr(<<tarsize, cloudperce, orbitid, scenepath, scenerow>>)
    IN  IF err # "none" THEN Res(g.db, err, 0)
        ELSE Res([g.db EXCEPT !.dbfs = Append(@,
                     [md_directory |-> g.ret,
                      batch |-> rec.batch,
                      tarsize |-> tarsize.v,
                      satellite |-> rec.satellite,
                      sensorid |-> rec.sensorid,
                      acquisitio |-> rec.acquisitio,
                      cloudperce |-> cloudperce.v,
                      orbitid |-> orbitid.v,
                      scenepath |-> scenepath.v,
                      scenerow |-> scenerow.v])],
                 "none", Len(g.db.dbfs) + 1)

\* Database._store_coord_axis: unit["type"] on a unit that is a plain
\* string raises TypeError before the row is built
_store_coord_axis(db, prj, axis) ==
    IF axis.unit.t # "dict" THEN Res(db, "TypeError", 0)
    ELSE Res([db EXCEPT !.axes = Append(@,
                 [prj |-> prj,
                  name |-> axis.name,
                  abbreviation |-> axis.abbreviation,
                  direction |-> axis.direction,
                  unit_type |-> axis.unit.type,
                  unit_name |-> axis.unit.name,
                  unit_conversion_factor |-> axis.unit.conversion_factor])],
             "none", Len(db.axes) + 1)

\* the loop over coordinate_system["axis"]: stops at the first exception
RECURSIVE StoreAxes(_, _, _)
StoreAxes(db, prj, axis) ==
    IF axis = <<>> THEN Res(db, "none", prj)
    ELSE LET r == _store_coord_axis(db, prj, Head(axis))
         IN  IF r.err # "none" THEN Res(r.db, r.err, 0)
             ELSE StoreAxes(r.db, prj, Tail(axis))

\* Database.store_prj
store_prj(db, m, desc) ==
    LET g == get_or_create_mdir(db, m)
    IN  IF desc.datum.id.t # "dict" THEN Res(g.db, "KeyError", 0)
        ELSE LET id == Len(g.db.prjs) + 1
                 saved == [g.db EXCEPT !.prjs = Append(@,
                     [md_directory |-> g.ret,
                      schema |-> desc.schema,
                      type |-> desc.type,
                      name |-> desc.name,
                      datum_type |-> desc.datum.type,
                      datum_name |-> desc.datum.name,
                      datum_ellipsoid_name |-> desc.datum.ellipsoid.name,
                      datum_ellipsoid_semi_major_axis |->
                          desc.datum.ellipsoid.semi_major_axis,
                      datum_ellipsoid_inverse_flattening |->
                          desc.datum.ellipsoid.inverse_flattening,
                      datum_id_authority |-> desc.datum.id.authority,
                      datum_id_code |-> desc.datum.id.code,
                      coordinate_system_subtype |-> desc.coordinate_system.subtype])]
             IN  StoreAxes(saved, id, desc.coordinate_system.axis)

\* the columns of JGW are NOT NULL: save() of a row with a None attribute
\* raises IntegrityError
JgwAttrs == {"path", "scale_x", "rotation_y", "rotation_x", "scale_y", "upper_left_x",
             "upper_left_y", "jpg_path"}

\* Database.store_jgw
store_jgw(db, m, data) ==
    LET g == get_or_create_mdir(db, m)
    IN  IF \E a \in JgwAttrs : data[a].t = "none" THEN Res(g.db, "IntegrityError", 0)
        ELSE Res([g.db EXCEPT !.jgws = Append(@,
                     [md_directory |-> g.ret,
                      path |-> data.path.s,
                      scale_x |-> data.scale_x.v,
                      rotation_y |-> data.rotation_y.v,
                      rotation_x |-> data.rotation_x.v,
                      scale_y |-> data.scale_y.v,
                      upper_left_x |-> data.upper_left_x.v,
                      upper_left_y |-> data.upper_left_y.v,
                      jpg |-> data.jpg_path.s])],
                 "none", Len(g.db.jgws) + 1)

\* ------------------------------------------------------------- inputs
\* metadata directories; PA and PB yield the same date token
PA == <<"a", "d1", "metadata">>
PB == <<"b", "d1", "metadata">>
PC == <<"a", "d2", "metadata">>
Paths == {PA, PB, PC}

\* attribute-table rows as dbfread yields them (character columns)
RecL8 ==
    [batch |-> "b1", tarsize |-> PStr(<<"1", "0">>), satellite |-> "Landsat-8",
     sensorid |-> "OLI", acquisitio |-> "2024-01-01",
     cloudperce |-> PStr(<<"1", ",", "5">>), orbitid |-> PStr(<<"1">>),
     scenepath |-> PStr(<<"2">>), scenerow |-> PStr(<<"3">>)]

RecL9 == [RecL8 EXCEPT !.satellite = "Landsat-9", !.cloudperce = PStr(<<"2", "0">>)]

IntFields == {"tarsize", "orbitid", "scenepath", "scenerow"}
NonNumeric == {PStr(<<"x">>), PStr(<<"1", ".", "5">>), PStr(<<>>), PNone}
BadIntRecs == {[RecL8 EXCEPT ![f] = v] : f \in IntFields, v \in NonNumeric}

DbfRecords == {RecL8, RecL9, [RecL8 EXCEPT !.orbitid = PStr(<<"x">>)]}

\* projection descriptors as crs.to_json_dict() yields them
Unit(name) ==
    [t |-> "dict", type |-> "AngularUnit", name |-> name, conversion_factor |-> Float(1)]
Axis(name, abbreviation, direction, unit) ==
    [name |-> name, abbreviation |-> abbreviation, direction |-> direction, unit |-> unit]

Datum(id) ==
    [type |-> "GeodeticReferenceFrame", name |-> "WGS 1984",
     ellipsoid |-> [name |-> "WGS 84", semi_major_axis |-> 6378137,
                    inverse_flattening |-> Float(298)],
     id |-> id]

Crs(datum, axis) ==
    [schema |-> "projjson", type |-> "GeographicCRS", name |-> "WGS 84",
     datum |-> datum,
     coordinate_system |-> [subtype |-> "ellipsoidal", axis |-> axis]]

EpsgId == [t |-> "dict", authority |-> "EPSG", code |-> 6326]

CrsOk ==
    Crs(Datum(EpsgId),
        <<Axis("Longitude", "lon", "east", Unit("degree")),
          Axis("Latitude", "lat", "north", Unit("degree"))>>)

\* the unit of the second axis is the bare string "degree"
CrsStrUnit ==
    Crs(Datum(EpsgId),
        <<Axis("Longitude", "lon", "east", Unit("degree")),
          Axis("Latitude", "lat", "north", PStr("degree"))>>)

\* a datum without an "id" member
CrsNoId == Crs(Datum(PNone), <<Axis("Longitude", "lon", "east", Unit("degree"))>>)

\* the same projection under the name another writer gives it
CrsEsri == [CrsOk EXCEPT !.name = "GCS_WGS_1984"]

Crss == {CrsOk, CrsNoId}

\* the lines of .jgw files
GoodLines ==
    << <<"1", ",", "5", "\n">>, <<"0", "\n">>, <<"0", "\n">>,
       <<"-", "1", ".", "5", "\n">>, <<"2", "\n">>, <<"3">> >>

\* the archive: PA is complete; PB holds a .jgw without its .jpg; the
\* projection of PC has a string unit and its .jgw only five lines
FS0 ==
    [dbf |-> {[path |-> File(PA, "d1", "dbf"), records |-> <<RecL8>>],
              [path |-> File(PB, "d1", "dbf"), records |-> <<RecL9>>],
              [path |-> File(PC, "d2", "dbf"), records |-> <<RecL8, RecL8>>]},
     prj |-> {[path |-> File(PA, "d1", "prj"), crs |-> CrsOk],
              [path |-> File(PB, "d1", "prj"), crs |-> CrsEsri],
              [path |-> File(PC, "d2", "prj"), crs |-> CrsStrUnit]},
     jgw |-> {[path |-> File(PA, "s1", "jgw"), lines |-> GoodLines],
              [path |-> File(PB, "s1", "jgw"), lines |-> GoodLines],
              [path |-> File(PB, "s2", "jgw"), lines |-> GoodLines],
              [path |-> File(PC, "s1", "jgw"), lines |-> SubSeq(GoodLines, 1, 5)]},
     jpg |-> {File(PA, "s1", "jpg"), File(PB, "s1", "jpg"), File(PC, "s1", "jpg")}]

\* arguments of a direct Database.store_jgw call
JgwData ==
    {[path |-> PStr(FileStr(File(PA, "s1", "jgw"))),
      jpg_path |-> PStr(FileStr(File(PA, "s1", "jpg"))),
      scale_x |-> PFloat(Float(1)), rotation_y |-> PFloat(Float(0)),
      rotation_x |-> PFloat(Float(0)), scale_y |-> PFloat(Float(-1)),
      upper_left_x |-> PFloat(Float(2)), upper_left_y |-> PFloat(Float(3))]}

\* the same call with scale_x=None
NullJgwData == {[data EXCEPT !.scale_x = PNone] : data \in JgwData}

\* an archive of one directory, PA, for the numeric texts: the cloud
\* percentage of its one attribute row and line k of its .jgw file are text
NumFS(text, k) ==
    [dbf |-> {[path |-> File(PA, "d1", "dbf"),
               records |-> <<[RecL8 EXCEPT !.cloudperce = PStr(text)]>>]},
     prj |-> {[path |-> File(PA, "d1", "prj"), crs |-> CrsOk]},
     jgw |-> {[path |-> File(PA, "s1", "jgw"), lines |-> [GoodLines EXCEPT ![k] = text]]},
     jpg |-> {File(PA, "s1", "jpg")}]

ArchiveKey == [kind |-> "archive", text |-> <<>>, line |-> 0]
NumKey(text, k) == [kind |-> "numeric", text |-> text, line |-> k]

\* the contents of the archive fs names
Disk == IF fs.kind = "archive" THEN FS0 ELSE NumFS(fs.text, fs.line)

\* ------------------------------------------------------------ core.py
\* core._store_dbf: dbfread.DBF raises DBFNotFound for a missing file; the
\* records are stored one by one until one raises
RECURSIVE StoreRecords(_, _, _)
StoreRecords(db, mdir_path, records) ==
    IF records = <<>> THEN Res(db, "none", 0)
    ELSE LET r == store_dbfreg(db, MPath(mdir_path), Head(records))
         IN  IF r.err # "none" THEN Res(r.db, r.err, 0)
             ELSE StoreRecords(r.db, mdir_path, Tail(records))

_store_dbf(db, mdir_path, dbf_path) ==
    LET found == {x \in Disk.dbf : x.path = dbf_path}
    IN  IF found = {} THEN Res(db, "DBFNotFound", 0)
        ELSE StoreRecords(db, mdir_path, (CHOOSE x \in found : TRUE).records)

\* core._store_prj: open() raises FileNotFoundError for a missing file
_store_prj(db, mdir_path, prj_path) ==
    LET found == {x \in Disk.prj : x.path = prj_path}
    IN  IF found = {} THEN Res(db, "FileNotFoundError", 0)
        ELSE LET r == store_prj(db, MPath(mdir_path), (CHOOSE x \in found : TRUE).crs)
             IN  Res(r.db, r.err, 0)

\* [float(line.strip().replace(",", ".", 1)) for line in jgw_lines]
JgwLinesFloat(lines) ==
    [i \in 1..Len(lines) |-> PyFloatStr(PyReplaceFirst(PyStrip(lines[i]), ",", "."))]

\* jpg_path.exists()
ExistsAlways(jpg_path) == TRUE

Exists(jpg_path) == jpg_path \in Disk.jpg

\* core._store_jgw
_store_jgw(db, mdir_path, jgw_path) ==
    LET jpg_path == WithSuffix(jgw_path, "jpg")
        found == {x \in Disk.jgw : x.path = jgw_path}
    IN  IF ~Exists(jpg_path) THEN Res(db, "ValueError", 0)
        ELSE IF found = {} THEN Res(db, "FileNotFoundError", 0)
        ELSE LET jgw_lines == (CHOOSE x \in found : TRUE).lines
                 fl == JgwLinesFloat(jgw_lines)
             IN  IF Len(jgw_lines) # 6 THEN Res(db, "ValueError", 0)
                 ELSE IF FirstErr(fl) # "none" THEN Res(db, FirstErr(fl), 0)
                 ELSE LET r == store_jgw(db, MPath(mdir_path),
                                  [path |-> PStr(FileStr(jgw_path)),
                                   scale_x |-> PFloat(fl[1].v),
                                   rotation_y |-> PFloat(fl[2].v),
                                   rotation_x |-> PFloat(fl[3].v),
                                   scale_y |-> PFloat(fl[4].v),
                                   upper_left_x |-> PFloat(fl[5].v),
                                   upper_left_y |-> PFloat(fl[6].v),
                                   jpg_path |-> PStr(FileStr(jpg_path))])
                      IN  Res(r.db, r.err, 0)

\* path.glob("*.jgw"): the .jgw files directly in the directory
Glob(path) == {x.path : x \in {y \in Disk.jgw : y.path.dir = path}}

\* the orders in which glob may yield the files of a set
Orders(S) ==
    {o \in [1..Cardinality(S) -> S] : \A i, j \in 1..Cardinality(S) : o[i] = o[j] => i = j}

\* the loop of store_mdir over the .jgw files: stops at the first exception
RECURSIVE StoreJgwsSkipFailed(_, _, _)
StoreJgwsSkipFailed(db, mdir_path, files) ==
    IF files = <<>> THEN Res(db, "none", 0)
    ELSE LET r == _store_jgw(db, mdir_path, Head(files))
             rest == StoreJgwsSkipFailed(r.db, mdir_path, Tail(files))
         IN  IF r.err # "none" THEN Res(rest.db, r.err, 0) ELSE rest

RECURSIVE StoreJgws(_, _, _)
StoreJgws(db, mdir_path, files) ==
    IF files = <<>> THEN Res(db, "none", 0)
    ELSE LET r == _store_jgw(db, mdir_path, Head(files))
         IN  IF r.err # "none" THEN Res(r.db, r.err, 0)
             ELSE StoreJgws(r.db, mdir_path, Tail(files))

\* core.store_mdir; order: the order glob yields the .jgw files of path in
store_mdirAllFromPath(db, path, order) ==
    LET g == get_or_create_mdir(db, MPath(path))
        mdir == g.db.mdirs[g.ret]
        dbf_path == File(path, mdir.date_str, "dbf")
        d == _store_dbf(g.db, MdirPath(mdir), dbf_path)
        prj_path == File(path, mdir.date_str, "prj")
        p == _store_prj(d.db, MdirPath(mdir), prj_path)
    IN  IF d.err # "none" THEN d
        ELSE IF p.err # "none" THEN p
        ELSE StoreJgws(p.db, MdirPath(mdir), order)

store_mdir(db, path, order) ==
    LET g == get_or_create_mdir(db, MPath(path))
        mdir == g.db.mdirs[g.ret]
        dbf_path == File(MdirPath(mdir), mdir.date_str, "dbf")
        d == _store_dbf(g.db, MdirPath(mdir), dbf_path)
        prj_path == File(path, mdir.date_str, "prj")
        p == _store_prj(d.db, MdirPath(mdir), prj_path)
    IN  IF d.err # "none" THEN d
        ELSE IF p.err # "none" THEN p
        ELSE StoreJgws(p.db, MdirPath(mdir), order)

\* path.glob("**/*metadata*/"): the metadata directories of the archive,
\* and a plain file of such a name, which an older pathlib yields as well
MetadataFile == <<"a", "metadata.txt">>

MetadataDirs == {x.path.dir : x \in Disk.dbf \cup Disk.prj \cup Disk.jgw}

GlobMetadata == MetadataDirs \cup {MetadataFile}

\* mdir.is_dir()
IsDir(mdir) == mdir \in MetadataDirs

\* the loop of populate_db over metadata_dirs; orders[mdir]: the order glob
\* yields the .jgw files of mdir in. store_mdir is not guarded: the first
\* exception ends the loop
RECURSIVE PopulateLoopSkipFailed(_, _, _), PopulateLoop(_, _, _)
PopulateNextSkipFailed(metadata_dirs, orders, r) ==
    PopulateLoopSkipFailed(r.db, Tail(metadata_dirs), orders)

PopulateLoopSkipFailed(db, metadata_dirs, orders) ==
    IF metadata_dirs = <<>> THEN Res(db, "none", 0)
    ELSE IF ~IsDir(Head(metadata_dirs)) THEN PopulateLoopSkipFailed(db, Tail(metadata_dirs), orders)
    ELSE PopulateNextSkipFailed(metadata_dirs, orders,
                      store_mdir(db, Head(metadata_dirs), orders[Head(metadata_dirs)]))

PopulateNext(metadata_dirs, orders, r) ==
    IF r.err # "none" THEN r ELSE PopulateLoop(r.db, Tail(metadata_dirs), orders)

PopulateLoop(db, metadata_dirs, orders) ==
    IF metadata_dirs = <<>> THEN Res(db, "none", 0)
    ELSE IF ~IsDir(Head(metadata_dirs)) THEN PopulateLoop(db, Tail(metadata_dirs), orders)
    ELSE PopulateNext(metadata_dirs, orders,
                      store_mdir(db, Head(metadata_dirs), orders[Head(metadata_dirs)]))

\* core.populate_db
populate_db(db, metadata_dirs, orders) == PopulateLoop(db, metadata_dirs, orders)

\* ------------------------------------------------------------- actions
Call(op, arg, err, ret) == [op |-> op, arg |-> arg, err |-> err, ret |-> ret]

\* the rows of DBFRecord, PRJ and JGW together
Rows(db) == Len(db.dbfs) + Len(db.prjs) + Len(db.jgws)

\* the store after an operation, and what the operation gave; the index
\* is kept within max rows
CommitWithin(r, op, arg, max) ==
    /\ Rows(r.db) <= max
    /\ mdirs' = r.db.mdirs
    /\ dbfs' = r.db.dbfs
    /\ prjs' = r.db.prjs
    /\ axes' = r.db.axes
    /\ jgws' = r.db.jgws
    /\ out' = Call(op, arg, r.err, r.ret)
    /\ UNCHANGED fs

Commit(r, op, arg) == CommitWithin(r, op, arg, MaxRows)

\* what a caller can pass as mdir_path_or_reg
MdirArgs == {MPath(p) : p \in Paths} \cup {MReg(i) : i \in 1..Len(mdirs)}

Init ==
    /\ mdirs = <<>>
    /\ dbfs = <<>>
    /\ prjs = <<>>
    /\ axes = <<>>
    /\ jgws = <<>>
    /\ fs = ArchiveKey
    /\ out = Call("init", <<>>, "none", 0)

GetOrCreateMdir ==
    \E m \in MdirArgs : Commit(get_or_create_mdir(DB, m), "get_or_create_mdir", m)

StoreDbfreg ==
    \E m \in MdirArgs, rec \in DbfRecords :
        Commit(store_dbfreg(DB, m, rec), "store_dbfreg", rec)

StorePrj ==
    \E m \in MdirArgs, crs \in Crss :
        Commit(store_prj(DB, m, crs), "store_prj", crs)

StoreJgw ==
    \E m \in MdirArgs, data \in JgwData :
        Commit(store_jgw(DB, m, data), "store_jgw", data)

CoreStoreJgw ==
    \E x \in Disk.jgw :
        Commit(_store_jgw(DB, x.path.dir, x.path), "_store_jgw", x.path)

StoreMdir ==
    \E p \in Paths : \E order \in Orders(Glob(p)) :
        Commit(store_mdir(DB, p, order), "store_mdir", <<p, order>>)

Next ==
    \/ GetOrCreateMdir
    \/ StoreDbfreg
    \/ StorePrj
    \/ StoreJgw
    \/ CoreStoreJgw
    \/ StoreMdir

Spec == Init /\ [][Next]_vars

\* ------------------------------------------------- the archive ingested
MaxRowsP == 9

\* an order of the .jgw files for every metadata directory
JgwOrders == {o \in [MetadataDirs -> UNION {Orders(Glob(d)) : d \in MetadataDirs}] :
                 \A d \in MetadataDirs : o[d] \in Orders(Glob(d))}

\* the archive was not ingested yet
Unpopulated == out.op # "populate_db"

PGetOrCreateMdir ==
    /\ Unpopulated
    /\ \E p \in MetadataDirs :
           CommitWithin(get_or_create_mdir(DB, MPath(p)), "get_or_create_mdir", MPath(p),
                        MaxRowsP)

PopulateDb ==
    /\ Unpopulated
    /\ \E metadata_dirs \in Orders(GlobMetadata), orders \in JgwOrders :
           CommitWithin(populate_db(DB, metadata_dirs, orders), "populate_db",
                        [dirs |-> metadata_dirs, orders |-> orders], MaxRowsP)

NextArchive == PGetOrCreateMdir \/ PopulateDb

SpecArchive == Init /\ [][NextArchive]_vars

\* ------------------------------------------ stores that succeed or fail
MaxRowsV == 3

\* a store call: the directory argument and the attributes
StoreArgs(m, data) == [mdir |-> m, data |-> data]

TryStoreDbfreg ==
    \E m \in MdirArgs, rec \in DbfRecords :
        CommitWithin(store_dbfreg(DB, m, rec), "store_dbfreg", StoreArgs(m, rec), MaxRowsV)

TryStorePrj ==
    \E m \in MdirArgs, crs \in {CrsOk, CrsNoId, CrsStrUnit} :
        CommitWithin(store_prj(DB, m, crs), "store_prj", StoreArgs(m, crs), MaxRowsV)

TryStoreJgw ==
    \E m \in MdirArgs, data \in JgwData \cup NullJgwData :
        CommitWithin(store_jgw(DB, m, data), "store_jgw", StoreArgs(m, data), MaxRowsV)

NextStores == TryStoreDbfreg \/ TryStorePrj \/ TryStoreJgw

SpecStores == Init /\ [][NextStores]_vars

\* --------------------------------------------------------- field catalog
\* the columns of the five models, in the order of Database.models; kind
\* is the peewee field class
Col(name, kind) == [name |-> name, kind |-> kind]

DateableCols == <<Col("id", "auto"), Col("created_at", "datetime"), Col("updated_at", "datetime")>>

ModelNames == <<"MetaDataDirectory", "DBFRecord", "PRJ", "CoordinateSystemAxisEntry", "JGW">>

ModelCols(model) ==
    DateableCols \o
    CASE model = "MetaDataDirectory" ->
            <<Col("date_str", "char"), Col("path_str", "char")>>
      [] model = "DBFRecord" ->
            <<Col("batch", "char"), Col("tarsize", "int"), Col("satellite", "char"),
              Col("sensorid", "char"), Col("acquisitio", "date"), Col("cloudperce", "float"),
              Col("orbitid", "int"), Col("scenepath", "int"), Col("scenerow", "int"),
              Col("md_directory", "fk")>>
      [] model = "PRJ" ->
            <<Col("schema", "char"), Col("type", "char"), Col("name", "char"),
              Col("datum_type", "char"), Col("datum_name", "char"),
              Col("datum_ellipsoid_name", "char"),
              Col("datum_ellipsoid_semi_major_axis", "int"),
              Col("datum_ellipsoid_inverse_flattening", "float"),
              Col("datum_id_authority", "char"), Col("datum_id_code", "int"),
              Col("coordinate_system_subtype", "char"), Col("md_directory", "fk")>>
      [] model = "CoordinateSystemAxisEntry" ->
            <<Col("name", "char"), Col("abbreviation", "char"), Col("direction", "char"),
              Col("unit_type", "char"), Col("unit_name", "char"),
              Col("unit_conversion_factor", "float"), Col("prj", "fk")>>
      [] model = "JGW" ->
            <<Col("path", "char"), Col("jpg", "char"), Col("scale_x", "float"),
              Col("rotation_y", "float"), Col("rotation_x", "float"),
              Col("scale_y", "float"), Col("upper_left_x", "float"),
              Col("upper_left_y", "float"), Col("md_directory", "fk")>>

\* the filter of get_searcheable_fields
forbiden_ftypes == {"fk", "auto"}
forbiden_fields == {DateableCols[i].name : i \in 1..Len(DateableCols)}

SearcheableByType(col) == ~(col.kind \in forbiden_ftypes)

Searcheable(col) == ~(col.kind \in forbiden_ftypes \/ col.name \in forbiden_fields)

\* the models that declare a searcheable column of that name
ModelsWith(name) ==
    {k \in 1..Len(ModelNames) :
        \E i \in 1..Len(ModelCols(ModelNames[k])) :
            LET c == ModelCols(ModelNames[k])[i] IN c.name = name /\ Searcheable(c)}

\* Database.get_searcheable_fields: a dict filled model after model, so of
\* two models with a column of the same name the later one stays
FieldKnown(name) == ModelsWith(name) # {}

FieldOf(name) ==
    LET k == CHOOSE k \in ModelsWith(name) : \A j \in ModelsWith(name) : j <= k
        cols == ModelCols(ModelNames[k])
        i == CHOOSE i \in 1..Len(cols) : cols[i].name = name
    IN  [name |-> name, model |-> ModelNames[k], kind |-> cols[i].kind]

\* ------------------------------------------------------------ the query
Lower == {"a", "b", "c", "d", "e", "f", "g", "h", "i", "j", "k", "l", "m",
          "n", "o", "p", "q", "r", "s", "t", "u", "v", "w", "x", "y", "z"}
Upper == {"A", "B", "C", "D", "E", "F", "G", "H", "I", "J", "K", "L", "M",
          "N", "O", "P", "Q", "R", "S", "T", "U", "V", "W", "X", "Y", "Z"}
WordChars == Lower \cup Upper \cup Digits \cup {"_"}

\* the text as one string
RECURSIVE Join(_)
Join(cs) == IF cs = <<>> THEN "" ELSE Head(cs) \o Join(Tail(cs))

MinOf(S) == CHOOSE x \in S : \A y \in S : x <= y
MaxOf(S) == CHOOSE x \in S : \A y \in S : y <= x

\* str.split(sep)
RECURSIVE Split(_, _)
Split(s, sep) ==
    LET idx == {i \in 1..Len(s) : s[i] = sep}
    IN  IF idx = {} THEN <<s>>
        ELSE <<SubSeq(s, 1, MinOf(idx) - 1)>> \o Split(SubSeq(s, MinOf(idx) + 1, Len(s)), sep)

StartsWith(s, pre) == Len(pre) <= Len(s) /\ SubSeq(s, 1, Len(pre)) = pre

\* the alternatives of (?P<op>...) in the order the pattern tries them
OpAlternatives ==
    << <<"!", "=">>, <<"=">>, <<"<", "=">>, <<"<">>, <<">", "=">>, <<">">>,
       <<"i", "n">>, <<"n", "o", "t", " ", "i", "n">> >>

\* (?P<op>...)\s*(?P<value>.+) at the start of r: the first alternative
\* that leaves at least one character for the value (0: none)
OpMatch(r) ==
    LET ok == {k \in 1..Len(OpAlternatives) :
                  StartsWith(r, OpAlternatives[k]) /\ Len(r) > Len(OpAlternatives[k])}
    IN  IF ok = {} THEN 0 ELSE MinOf(ok)

\* SIMPLE_QUERY_PATTERN.match(s): \w+ is greedy and gives characters back
\* until the rest matches
PatternMatch(s) ==
    LET ends == {i \in 1..Len(s) :
                    /\ \A j \in 1..i : s[j] \in WordChars
                    /\ OpMatch(LStrip(SubSeq(s, i + 1, Len(s)))) # 0}
    IN  IF ends = {} THEN [ok |-> FALSE]
        ELSE LET i == MaxOf(ends)
                 r == LStrip(SubSeq(s, i + 1, Len(s)))
                 op == OpAlternatives[OpMatch(r)]
             IN  [ok |-> TRUE, arg |-> SubSeq(s, 1, i), op |-> Join(op),
                  value |-> LStrip(SubSeq(r, Len(op) + 1, Len(r)))]

\* the validator of _SimpleOperation.arg: ^[a-zA-Z][a-zA-Z0-9_]*$
ArgValid(arg) ==
    /\ arg # <<>>
    /\ arg[1] \in Lower \cup Upper
    /\ \A i \in 1..Len(arg) : arg[i] \in WordChars

\* ast.literal_eval of the value of an in / not in condition: a number, a
\* quoted string, or a list or tuple of those; a text that is no python
\* expression raises SyntaxError, another expression ValueError
Quotes == {"'", "\""}

IsQuoted(s) ==
    /\ Len(s) >= 2
    /\ s[1] \in Quotes
    /\ s[Len(s)] = s[1]
    /\ \A i \in 2..(Len(s) - 1) : s[i] # s[1] /\ s[i] # "\\"

IsNumber(s) == s # <<>> /\ PyFloatStr(s).ok /\ \A i \in 1..Len(s) : s[i] \notin Whitespace

IsName(s) == ArgValid(s) \/ (s # <<>> /\ s[1] = "_" /\ \A i \in 1..Len(s) : s[i] \in WordChars)

Scalar(s) ==
    IF IsQuoted(s) THEN Ok(PStr(SubSeq(s, 2, Len(s) - 1)))
    ELSE IF IsNumber(s) THEN Ok([t |-> "num", s |-> s])
    ELSE IF IsName(s) THEN Fail("ValueError")
    ELSE Fail("SyntaxError")

\* an element before the elements after it: the text is parsed before any
\* of it is evaluated, so a SyntaxError anywhere comes first
ConsScalar(h, t) ==
    IF ~h.ok /\ h.err = "SyntaxError" THEN h
    ELSE IF ~t.ok /\ t.err = "SyntaxError" THEN t
    ELSE IF ~h.ok THEN h
    ELSE IF ~t.ok THEN t
    ELSE Ok(<<h.v>> \o t.v)

RECURSIVE Scalars(_)
Scalars(items) ==
    IF items = <<>> THEN Ok(<<>>)
    ELSE ConsScalar(Scalar(PyStrip(Head(items))), Scalars(Tail(items)))

\* a trailing comma is allowed
DropTrailingComma(inner) ==
    IF inner # <<>> /\ inner[Len(inner)] = "," THEN SubSeq(inner, 1, Len(inner) - 1) ELSE inner

Items(body) == IF PyStrip(body) = <<>> THEN <<>> ELSE Split(body, ",")

\* the list or tuple of the elements; one element in parentheses with no
\* comma is the element itself
Display(kind, vs, paren) ==
    IF ~vs.ok THEN vs
    ELSE IF paren /\ Len(vs.v) = 1 THEN Ok(vs.v[1])
    ELSE Ok([t |-> kind, items |-> vs.v])

Bracketed(s, open, close) == Len(s) >= 2 /\ s[1] = open /\ s[Len(s)] = close

\* what stands between the brackets; a lone comma is no expression
EnclosedBody(kind, inner, body) ==
    IF inner # <<>> /\ body = <<>> THEN Fail("SyntaxError")
    ELSE Display(kind, Scalars(Items(body)), kind = "tuple" /\ inner = body)

Enclosed(kind, inner) == EnclosedBody(kind, inner, DropTrailingComma(inner))

LiteralEvalStripped(s) ==
    IF Bracketed(s, "[", "]") THEN Enclosed("list", PyStrip(SubSeq(s, 2, Len(s) - 1)))
    ELSE IF Bracketed(s, "(", ")") THEN Enclosed("tuple", PyStrip(SubSeq(s, 2, Len(s) - 1)))
    ELSE IF \E i \in 1..Len(s) : s[i] = ","
    THEN Display("tuple", Scalars(Split(DropTrailingComma(s), ",")), FALSE)
    ELSE Scalar(s)

LiteralEval(text) == LiteralEvalStripped(PyStrip(text))

\* the ValueError of Database.parse_simple_query: its message holds the
\* segment as "Hint"
InvalidQuery(squery_str) == [ok |-> FALSE, err |-> "ValueError", hint |-> squery_str]

\* one condition of Database.parse_simple_query: the value is evaluated
\* before the _SimpleOperation validates arg, and outside the try block
OperationOf(squery_str, arg, op, value) ==
    IF ~value.ok THEN value
    ELSE IF ~ArgValid(arg) THEN InvalidQuery(squery_str)
    ELSE Ok([arg |-> Join(arg), operation |-> op, value |-> value.v])

ValueOf(op, value_str) ==
    IF op \in {"in", "not in"} THEN LiteralEval(value_str) ELSE Ok(PStr(value_str))

MatchedCondition(squery_str, match) ==
    IF ~match.ok THEN InvalidQuery(squery_str)
    ELSE OperationOf(squery_str, PyStrip(match.arg), match.op,
                     ValueOf(match.op, PyStrip(match.value)))

ParseCondition(squery_str) ==
    MatchedCondition(squery_str, PatternMatch(PyStrip(squery_str)))

\* the result of the first step before the results of the later ones; the
\* first exception ends the loop
Cons(h, t) == IF ~h.ok THEN h ELSE IF ~t.ok THEN t ELSE Ok(<<h.v>> \o t.v)

RECURSIVE ParseConditions(_)
ParseConditions(segs) ==
    IF segs = <<>> THEN Ok(<<>>)
    ELSE Cons(ParseCondition(Head(segs)), ParseConditions(Tail(segs)))

\* Database.parse_simple_query
parse_simple_query(query_str) == ParseConditions(Split(query_str, "&"))

\* field.python_value(value): IntegerField and FloatField try int() and
\* float() and keep the value on ValueError, CharField keeps the text; a
\* list or tuple given to int() or float() raises TypeError
IntAsFloat(r) == IF r.ok THEN Ok(Float(r.v)) ELSE r

KeepOnError(r, value) == IF r.ok THEN Ok([t |-> "num", v |-> r.v]) ELSE Ok(value)

python_value(kind, value) ==
    IF kind \in {"int", "float"}
    THEN CASE value.t = "str" ->
                  KeepOnError(IF kind = "int" THEN IntAsFloat(PyInt(value))
                              ELSE PyFloatStr(value.s), value)
           [] value.t = "num" -> KeepOnError(PyFloatStr(value.s), value)
           [] OTHER -> Fail("TypeError")
    ELSE Ok(value)

\* operator.contains(field, value) evaluates  value in field.  No peewee
\* is pinned and peewee.ColumnBase has no __contains__: a build whose
\* ColumnBase has only __getitem__ lets python iterate field[0], field[1],
\* .. and compare the first with the value, which gives True (an
\* Expression is truthy); a build whose ColumnBase sets __iter__ = None
\* raises TypeError
Libs == {"getitem", "noiter"}

Contains(lib) == IF lib = "getitem" THEN Ok([t |-> "true"]) ELSE Fail("TypeError")

\* _SimpleOperation.bind: the comparison operators give a peewee
\* expression; the lambda of "not in" names the undefined  opetor  and
\* raises NameError before it evaluates anything else
BindValue(lib, opdef, field, pyvalue) ==
    IF ~pyvalue.ok THEN pyvalue
    ELSE IF opdef.operation = "in" THEN Contains(lib)
    ELSE IF opdef.operation = "not in" THEN Fail("NameError")
    ELSE Ok([t |-> "cmp", field |-> field, op |-> opdef.operation, value |-> pyvalue.v])

bind(lib, opdef, field) ==
    BindValue(lib, opdef, field, python_value(field.kind, opdef.value))

\* one step of the loop of Database.compile_query
\* raise ValueError(f"Unknow field {opdef.arg!r}")
UnknownField(arg) == [ok |-> FALSE, err |-> "ValueError", arg |-> arg]

CompileOne(lib, opdef) ==
    IF ~FieldKnown(opdef.arg) THEN UnknownField(opdef.arg)
    ELSE bind(lib, opdef, FieldOf(opdef.arg))

\* Database.compile_query: the conditions in query order, the first
\* exception ends it; the expressions are and-ed
compile_queryLastOnly(lib, operations) ==
    IF operations = <<>> THEN Ok(<<>>)
    ELSE Cons(CompileOne(lib, operations[Len(operations)]), Ok(<<>>))

RECURSIVE compile_query(_, _)
compile_query(lib, operations) ==
    IF operations = <<>> THEN Ok(<<>>)
    ELSE Cons(CompileOne(lib, Head(operations)), compile_query(lib, Tail(operations)))

\* a row of the join JGW - MetaDataDirectory - DBFRecord, - PRJ -
\* CoordinateSystemAxisEntry: the ids of its five rows
JoinRow(j, m, d, p, a) == [JGW |-> j, MetaDataDirectory |-> m, DBFRecord |-> d, PRJ |-> p,
                           CoordinateSystemAxisEntry |-> a]

TableOf(db, model) ==
    CASE model = "MetaDataDirectory" -> db.mdirs
      [] model = "DBFRecord" -> db.dbfs
      [] model = "PRJ" -> db.prjs
      [] model = "CoordinateSystemAxisEntry" -> db.axes
      [] model = "JGW" -> db.jgws

\* sqlite's comparison of a column with the bound value: a text that reads
\* as a number is compared as a number with a numeric column, any other
\* text is greater than every number; texts are compared for equality
\* (the queries drawn put no order on text columns)
NumCompare(a, op, b) ==
    CASE op = "=" -> a = b [] op = "!=" -> a # b [] op = "<" -> a < b
      [] op = "<=" -> a <= b [] op = ">" -> a > b [] op = ">=" -> a >= b

NumberVsText(c, op, r) ==
    IF r.ok THEN NumCompare(c, op, r.v) ELSE op \in {"!=", "<", "<="}

SqlCompare(kind, col, op, value) ==
    IF kind \in {"int", "float"}
    THEN IF value.t = "num"
         THEN NumCompare(IF kind = "int" THEN Float(col) ELSE col, op, value.v)
         ELSE NumberVsText(IF kind = "int" THEN Float(col) ELSE col, op, PyFloatStr(value.s))
    ELSE CASE op = "=" -> col = Join(value.s)
           [] op = "!=" -> col # Join(value.s)

\* the where clause on one row of the join
Holds(db, exprs, row) ==
    \A i \in 1..Len(exprs) :
        \/ exprs[i].t = "true"
        \/ /\ exprs[i].t = "cmp"
           /\ SqlCompare(exprs[i].field.kind,
                         TableOf(db, exprs[i].field.model)[row[exprs[i].field.model]][exprs[i].field.name],
                         exprs[i].op, exprs[i].value)

\* the rows of the inner joins that hold JGW j
JoinRowsOfAnyDbf(db, j) ==
    {JoinRow(j, db.jgws[j].md_directory, d, p, a) :
        <<d, p, a>> \in {x \in (1..Len(db.dbfs)) \X (1..Len(db.prjs)) \X (1..Len(db.axes)) :
            /\ db.jgws[j].md_directory \in 1..Len(db.mdirs)
            /\ db.prjs[x[2]].md_directory = db.jgws[j].md_directory
            /\ db.axes[x[3]].prj = x[2]}}

JoinRowsOf(db, j) ==
    {JoinRow(j, db.jgws[j].md_directory, d, p, a) :
        <<d, p, a>> \in {x \in (1..Len(db.dbfs)) \X (1..Len(db.prjs)) \X (1..Len(db.axes)) :
            /\ db.jgws[j].md_directory \in 1..Len(db.mdirs)
            /\ db.dbfs[x[1]].md_directory = db.jgws[j].md_directory
            /\ db.prjs[x[2]].md_directory = db.jgws[j].md_directory
            /\ db.axes[x[3]].prj = x[2]}}

Repeat(x, n) == [i \in 1..n |-> x]

\* the JGW of every row of the join that satisfies the where clause
RECURSIVE Selected(_, _, _)
Selected(db, exprs, j) ==
    IF j > Len(db.jgws) THEN <<>>
    ELSE Repeat(j, Cardinality({r \in JoinRowsOf(db, j) : Holds(db, exprs, r)}))
         \o Selected(db, exprs, j + 1)

\* SELECT DISTINCT: every row once
DistinctNone(rows) == rows

RECURSIVE Distinct(_)
Distinct(rows) ==
    IF rows = <<>> THEN <<>>
    ELSE LET init == Distinct(SubSeq(rows, 1, Len(rows) - 1))
             last == rows[Len(rows)]
         IN  IF last \in SeqToSet(init) THEN init ELSE Append(init, last)

\* Database.simple_search; the result is the tuple of the ids of the JGW
\* rows, in the order of the scan
Compiled(lib, operations) ==
    IF ~operations.ok THEN operations ELSE compile_query(lib, operations.v)

Query(db, expr) ==
    IF ~expr.ok THEN Res(db, expr.err, <<>>)
    ELSE Res(db, "none", Distinct(Selected(db, expr.v, 1)))

simple_search(lib, db, query_str) ==
    Query(db, Compiled(lib, parse_simple_query(query_str)))

\* ----------------------------------------------------------- statistics
\* a quotient that need not be whole: num / den
Ratio(num, den) == [num |-> num, den |-> den]

RECURSIVE SumOf(_)
SumOf(s) == IF s = <<>> THEN 0 ELSE Head(s) + SumOf(Tail(s))

RECURSIVE SumSqOf(_)
SumSqOf(s) == IF s = <<>> THEN 0 ELSE Head(s) * Head(s) + SumSqOf(Tail(s))

\* sorted(data)
RECURSIVE SortedSeq(_)
SortedSeq(s) ==
    IF s = <<>> THEN <<>>
    ELSE LET i == CHOOSE i \in 1..Len(s) : \A j \in 1..Len(s) : s[i] <= s[j]
         IN  <<s[i]>> \o SortedSeq(SubSeq(s, 1, i - 1) \o SubSeq(s, i + 1, Len(s)))

\* statistics.mean
Mean(s) == Ratio(SumOf(s), Len(s))

\* statistics.median: the middle value, or the mean of the two middle ones
MedianOfSorted(s) ==
    IF Len(s) % 2 = 1 THEN Ratio(s[(Len(s) + 1) \div 2], 1)
    ELSE Ratio(s[Len(s) \div 2] + s[Len(s) \div 2 + 1], 2)

Median(s) == MedianOfSorted(SortedSeq(s))

\* statistics.stdev is the square root of the sample variance; the model
\* keeps the variance,  (n * sum x^2 - (sum x)^2) / (n * (n - 1))
Variance(s) ==
    Ratio(Len(s) * SumSqOf(s) - SumOf(s) * SumOf(s), Len(s) * (Len(s) - 1))

\* model.select(field): the value of the column in every row
Column(db, field) ==
    [i \in 1..Len(TableOf(db, field.model)) |-> TableOf(db, field.model)[i][field.name]]

\* tuple(model.select(field).distinct().scalars()): the distinct values of
\* the column
ColumnValuesAll(db, field) == Column(db, field)

ColumnValues(db, field) == Distinct(Column(db, field))

\* Field.field_type
FieldType(kind) ==
    CASE kind = "int" -> "INT" [] kind = "float" -> "FLOAT" [] kind = "char" -> "VARCHAR"
      [] kind = "date" -> "DATE" [] kind = "datetime" -> "DATETIME"

\* the stats of a numeric field; min() of no value raises ValueError. No
\* stored value is None or NaN (int() and float() gave every one of them),
\* so "NA" is False. "Std" holds the variance (0 for fewer than two values)
NumericStats(query) ==
    IF query = <<>> THEN Fail("ValueError")
    ELSE Ok([Count |-> Len(query),
             Uniques |-> Cardinality(SeqToSet(query)),
             Min |-> MinOf(SeqToSet(query)),
             Max |-> MaxOf(SeqToSet(query)),
             NA |-> FALSE,
             Mean |-> Mean(query),
             Median |-> Median(query),
             Std |-> IF Len(query) > 1 THEN Variance(query) ELSE Ratio(0, 1)])

\* the stats of a character field; of more than ten values ten are shown,
\* which ten is the iteration order of a python set
MaxValues == 10

TextStats(query) ==
    Ok([Count |-> Len(query),
        Uniques |-> Cardinality(SeqToSet(query)),
        Values |-> SeqToSet(query),
        Ellipsis |-> Cardinality(SeqToSet(query)) > MaxValues])

StatsOf(kind, query) ==
    IF kind \in {"int", "float"} THEN NumericStats(query)
    ELSE IF kind = "char" THEN TextStats(query)
    ELSE Ok([unknown |-> "??"])

InfoOf(db, field, stats) ==
    IF ~stats.ok THEN Res(db, stats.err, 0)
    ELSE Res(db, "none", [field_name |-> field.name, model |-> field.model,
                          field_type |-> FieldType(field.kind), stats |-> stats.v])

FieldInfoOf(db, field) == InfoOf(db, field, StatsOf(field.kind, ColumnValues(db, field)))

\* Database.field_info; a name that is no searcheable field raises KeyError
field_info(db, field_name) ==
    IF ~FieldKnown(field_name) THEN Res(db, "KeyError", 0)
    ELSE FieldInfoOf(db, FieldOf(field_name))

\* ----------------------------------------------------------- flattening
\* an entity: a row of a model
Obj(model, id) == [model |-> model, id |-> id]

\* model_obj._meta.refs: the foreign keys of the model
Refs(model) ==
    CASE model \in {"DBFRecord", "PRJ", "JGW"} ->
            << [name |-> "md_directory", model |-> "MetaDataDirectory"] >>
      [] model = "CoordinateSystemAxisEntry" -> << [name |-> "prj", model |-> "PRJ"] >>
      [] OTHER -> <<>>

\* model_obj._meta.model_backrefs: the models that refer to the model, in
\* the order Database declares them
Backrefs(model) ==
    CASE model = "MetaDataDirectory" ->
            << [model |-> "DBFRecord", field |-> "md_directory"],
               [model |-> "PRJ", field |-> "md_directory"],
               [model |-> "JGW", field |-> "md_directory"] >>
      [] model = "PRJ" -> << [model |-> "CoordinateSystemAxisEntry", field |-> "prj"] >>
      [] OTHER -> <<>>

\* getattr(model_obj, brfield.backref): the rows that refer to obj
BackrefRows(db, br, obj) ==
    SelectSeq([i \in 1..Len(TableOf(db, br.model)) |-> Obj(br.model, i)],
              LAMBDA o : TableOf(db, br.model)[o.id][br.field] = obj.id)

\* the state of one call of model_to_dict and of the loops in it: what was
\* gathered, and the visited and upper_level_model sets, which every
\* nested call shares and adds to
Walk(items, visited, upper) == [items |-> items, visited |-> visited, upper |-> upper]

\* data[fkfield.name] = related_data, unless it is None
WithRelatedMarker(w, name, r) ==
    Walk(Append(w.items,
                [name |-> name,
                 data |-> IF r.items = <<>>
                          THEN [model |-> "visited", id |-> 0, refs |-> <<>>, backrefs |-> <<>>]
                          ELSE r.items[1]]),
         r.visited, r.upper)

WithRelated(w, name, r) ==
    Walk(IF r.items = <<>> THEN w.items ELSE Append(w.items, [name |-> name, data |-> r.items[1]]),
         r.visited, r.upper)

\* backrefs.append(refmodel_data), unless it is None
WithBackref(w, r) == Walk(w.items \o r.items, r.visited, r.upper)

\* data[brmodel.__name__] = backrefs, if there are any
WithBackrefs(w, name, r) ==
    Walk(IF r.items = <<>> THEN w.items ELSE Append(w.items, [name |-> name, data |-> r.items]),
         r.visited, r.upper)

\* the tree of obj: its columns are those of the row Obj(model, id); refs
\* and backrefs are the entries model_to_dict adds to them
Tree(obj, refs, backrefs) ==
    [model |-> obj.model, id |-> obj.id, refs |-> refs.items, backrefs |-> backrefs.items]

\* if model_obj in visited or type(model_obj) in upper_level_model
SeenNever(obj, w) == FALSE

Seen(obj, w) == obj \in w.visited \/ obj.model \in w.upper

RECURSIVE Flatten(_, _, _), RelatedOf(_, _, _, _), ChildrenOf(_, _, _), BackrefsOf(_, _, _, _)

\* the expansion of obj after the loop over the foreign keys gave refs
Expanded(db, obj, refs) ==
    LET backrefs == BackrefsOf(db, obj, Backrefs(obj.model),
                               Walk(<<>>, refs.visited, refs.upper))
    IN  Walk(<<Tree(obj, refs, backrefs)>>, backrefs.visited, backrefs.upper)

\* model_to_dict(model_obj, visited, upper_level_model); items is empty
\* when it returns None
Flatten(db, obj, w) ==
    IF Seen(obj, w) THEN Walk(<<>>, w.visited, w.upper)
    ELSE Expanded(db, obj,
                  RelatedOf(db, obj, Refs(obj.model),
                            Walk(<<>>, w.visited \cup {obj}, w.upper \cup {obj.model})))

\* the loop over model_obj._meta.refs
RelatedOf(db, obj, refs, w) ==
    IF refs = <<>> THEN w
    ELSE RelatedOf(db, obj, Tail(refs),
                   WithRelated(w, Head(refs).name,
                       Flatten(db, Obj(Head(refs).model,
                                           TableOf(db, obj.model)[obj.id][Head(refs).name]),
                                   Walk(<<>>, w.visited, w.upper))))

\* the loop over the rows of one back reference
ChildrenOf(db, rows, w) ==
    IF rows = <<>> THEN w
    ELSE ChildrenOf(db, Tail(rows),
                    WithBackref(w, Flatten(db, Head(rows), Walk(<<>>, w.visited, w.upper))))

\* the loop over model_obj._meta.model_backrefs
BackrefsOf(db, obj, backrefs, w) ==
    IF backrefs = <<>> THEN w
    ELSE IF Head(backrefs).model \in w.upper THEN BackrefsOf(db, obj, Tail(backrefs), w)
    ELSE BackrefsOf(db, obj, Tail(backrefs),
                    WithBackrefs(w, Head(backrefs).model,
                        ChildrenOf(db, BackrefRows(db, Head(backrefs), obj),
                                   Walk(<<>>, w.visited, w.upper))))

\* model_to_dict(model_obj): visited and upper_level_model start empty
model_to_dict(db, obj) == Res(db, "none", Flatten(db, obj, Walk(<<>>, {}, {})).items[1])

\* model_to_dict(model) is called with one argument: visited and
\* upper_level_model are None and start as new empty sets, whatever the
\* call before left in w
FreshSetsKept(w) == Walk(<<>>, w.visited, w.upper)

FreshSets(w) == Walk(<<>>, {}, {})

\* what model_to_dict returned: the tree, or None
Returns(r) ==
    IF r.items = <<>> THEN [model |-> "None", id |-> 0, refs |-> <<>>, backrefs |-> <<>>]
    ELSE r.items[1]

\* for model in records: rlist.append(model_to_dict(model))
RECURSIVE RecordsLoop(_, _, _, _)
RecordsAppend(db, records, rlist, r) ==
    RecordsLoop(db, Tail(records), Append(rlist, Returns(r)), r)

RecordsLoop(db, records, rlist, w) ==
    IF records = <<>> THEN rlist
    ELSE RecordsAppend(db, records, rlist, Flatten(db, Head(records), FreshSets(w)))

\* records_as_list(records)
records_as_list(db, records) ==
    Res(db, "none", RecordsLoop(db, records, <<>>, Walk(<<>>, {}, {})))

\* ------------------------------------------------------------- queries
\* satellite = Landsat-8
QSat ==
    <<"s", "a", "t", "e", "l", "l", "i", "t", "e", " ", "=", " ", "L", "a", "n", "d",
      "s", "a", "t", "-", "8">>

\* satellite = 'Landsat-8'
QSatQuoted ==
    <<"s", "a", "t", "e", "l", "l", "i", "t", "e", " ", "=", " ", "'", "L", "a", "n",
      "d", "s", "a", "t", "-", "8", "'">>

\* cloudperce <= 10
QCloud ==
    <<"c", "l", "o", "u", "d", "p", "e", "r", "c", "e", " ", "<", "=", " ", "1", "0">>

\* cloudperce <= 10 & satellite = Landsat-8
QCloudSat ==
    <<"c", "l", "o", "u", "d", "p", "e", "r", "c", "e", " ", "<", "=", " ", "1", "0",
      " ", "&", " ", "s", "a", "t", "e", "l", "l", "i", "t", "e", " ", "=", " ", "L",
      "a", "n", "d", "s", "a", "t", "-", "8">>

\* satellite = Landsat-8 & cloudperce <= 10
QSatCloud ==
    <<"s", "a", "t", "e", "l", "l", "i", "t", "e", " ", "=", " ", "L", "a", "n", "d",
      "s", "a", "t", "-", "8", " ", "&", " ", "c", "l", "o", "u", "d", "p", "e", "r",
      "c", "e", " ", "<", "=", " ", "1", "0">>

\* unit_name = degree
QUnit ==
    <<"u", "n", "i", "t", "_", "n", "a", "m", "e", " ", "=", " ", "d", "e", "g", "r",
      "e", "e">>

\* scale_x > 0
QScale ==
    <<"s", "c", "a", "l", "e", "_", "x", " ", ">", " ", "0">>

\* unknownfield = 1
QUnknown ==
    <<"u", "n", "k", "n", "o", "w", "n", "f", "i", "e", "l", "d", " ", "=", " ", "1">>

Queries == {"QSat", "QSatQuoted", "QCloud", "QCloudSat", "QSatCloud", "QUnit", "QScale", "QUnknown"}

QueryText(q) ==
    CASE q = "QSat" -> QSat
      [] q = "QSatQuoted" -> QSatQuoted
      [] q = "QCloud" -> QCloud
      [] q = "QCloudSat" -> QCloudSat
      [] q = "QSatCloud" -> QSatCloud
      [] q = "QUnit" -> QUnit
      [] q = "QScale" -> QScale
      [] q = "QUnknown" -> QUnknown

\* ------------------------------------------- one call on numeric text
Alphabet == {"1", "5", ",", ".", "-", " "}
Texts == UNION {[1..n -> Alphabet] : n \in 1..MaxText}

WideRecords == BadIntRecs \cup {[RecL8 EXCEPT !.cloudperce = PStr(t)] : t \in Texts}

InitNum ==
    /\ mdirs = <<>>
    /\ dbfs = <<>>
    /\ prjs = <<>>
    /\ axes = <<>>
    /\ jgws = <<>>
    /\ fs \in {ArchiveKey} \cup {NumKey(t, k) : t \in Texts, k \in 1..6}
    /\ out = Call("init", <<>>, "none", 0)

\* store_dbfreg as the first call on an empty index
FirstStoreDbfreg ==
    /\ out.op = "init"
    /\ fs = ArchiveKey
    /\ \E m \in MdirArgs, rec \in WideRecords :
           Commit(store_dbfreg(DB, m, rec), "store_dbfreg", rec)

\* _store_jgw as the first call on an empty index
FirstCoreStoreJgw ==
    /\ out.op = "init"
    /\ CoreStoreJgw

NextNum ==
    \/ FirstStoreDbfreg
    \/ FirstCoreStoreJgw

SpecNum == InitNum /\ [][NextNum]_vars

\* ------------------------------------------ building an index to query
\* the directories and inputs the queried index is built from
QueryDirs == {MPath(PA), MPath(PC)}

QStoreDbfreg ==
    \E m \in QueryDirs, rec \in {RecL8, RecL9} :
        CommitWithin(store_dbfreg(DB, m, rec), "store_dbfreg", rec, MaxRowsQ)

QStorePrj ==
    \E m \in QueryDirs :
        CommitWithin(store_prj(DB, m, CrsOk), "store_prj", CrsOk, MaxRowsQ)

QStoreJgw ==
    \E m \in QueryDirs, data \in JgwData :
        CommitWithin(store_jgw(DB, m, data), "store_jgw", data, MaxRowsQ)

\* no query of Queries holds an in condition, so the peewee build makes no
\* difference to what they give
SimpleSearch ==
    \E lib \in {"noiter"}, q \in Queries :
        CommitWithin(simple_search(lib, DB, QueryText(q)), "simple_search", q, MaxRowsQ)

NextQuery ==
    \/ QStoreDbfreg
    \/ QStorePrj
    \/ QStoreJgw
    \/ SimpleSearch

SpecQuery == Init /\ [][NextQuery]_vars

\* ------------------- ingestion, queries, statistics and flattening mixed
\* model._meta.fields of model k, in declaration order
FieldsOf(k) ==
    [i \in 1..Len(ModelCols(ModelNames[k])) |->
        [name |-> ModelCols(ModelNames[k])[i].name, model |-> ModelNames[k],
         kind |-> ModelCols(ModelNames[k])[i].kind]]

\* the new_fields of the five models, in the order of self.models
NewFields ==
    SelectSeq(FieldsOf(1) \o FieldsOf(2) \o FieldsOf(3) \o FieldsOf(4) \o FieldsOf(5), Searcheable)

\* the keys of the dict in insertion order: fields.update keeps the place of
\* a key it already holds and replaces its value
FieldKeys ==
    LET first == SelectSeq([i \in 1..Len(NewFields) |-> i],
                           LAMBDA i : \A j \in 1..(i - 1) : NewFields[j].name # NewFields[i].name)
    IN  [k \in 1..Len(first) |-> NewFields[first[k]].name]

\* Database.get_searcheable_fields
get_searcheable_fields == [name \in SeqToSet(FieldKeys) |-> FieldOf(name)]

\* Database.searcheable_fields_by_models: the fields of the dict grouped by
\* fld.model, each list in the order of the dict
FieldsInOrder == [k \in 1..Len(FieldKeys) |-> get_searcheable_fields[FieldKeys[k]]]

searcheable_fields_by_models ==
    [model \in {FieldsInOrder[k].model : k \in 1..Len(FieldsInOrder)} |->
        SelectSeq(FieldsInOrder, LAMBDA fld : fld.model = model)]

MaxRowsL == 3

\* two paths of one date token
LifeDirs == {MPath(PA), MPath(PB)}

LGetOrCreateMdir ==
    \E m \in LifeDirs :
        CommitWithin(get_or_create_mdir(DB, m), "get_or_create_mdir", m, MaxRowsL)

LStoreDbfreg ==
    \E m \in LifeDirs, rec \in {RecL8, RecL9} :
        CommitWithin(store_dbfreg(DB, m, rec), "store_dbfreg", rec, MaxRowsL)

LStorePrj ==
    \E m \in LifeDirs :
        CommitWithin(store_prj(DB, m, CrsOk), "store_prj", CrsOk, MaxRowsL)

LStoreJgw ==
    \E m \in LifeDirs, data \in JgwData :
        CommitWithin(store_jgw(DB, m, data), "store_jgw", data, MaxRowsL)

LStoreMdir ==
    \E p \in {PA, PB} : \E order \in Orders(Glob(p)) :
        CommitWithin(store_mdir(DB, p, order), "store_mdir", <<p, order>>, MaxRowsL)

LSimpleSearch ==
    \E lib \in Libs, q \in {"QSat", "QCloud", "QUnknown"} :
        CommitWithin(simple_search(lib, DB, QueryText(q)), "simple_search", q, MaxRowsL)

\* the names asked of field_info: a float, a character and a date column,
\* and a name that is no column
InfoFields == {"cloudperce", "satellite", "acquisitio", "nofield"}

FieldInfo ==
    \E field_name \in InfoFields :
        CommitWithin(field_info(DB, field_name), "field_info", field_name, MaxRowsL)

\* every row of the index
Entities ==
    {Obj(ModelNames[k], i) : <<k, i>> \in {x \in (1..Len(ModelNames)) \X (1..(MaxRowsL + 2)) :
                                              x[2] <= Len(TableOf(DB, ModelNames[x[1]]))}}

ModelToDict ==
    \E obj \in Entities :
        CommitWithin(model_to_dict(DB, obj), "model_to_dict", obj, MaxRowsL)

\* the lists of up to MaxRecords rows handed to records_as_list
MaxRecords == 2

RecordLists == UNION {[1..n -> Entities] : n \in 0..MaxRecords}

RecordsAsList ==
    \E records \in RecordLists :
        CommitWithin(records_as_list(DB, records), "records_as_list", records, MaxRowsL)

GetSearcheableFields ==
    CommitWithin(Res(DB, "none", get_searcheable_fields), "get_searcheable_fields", <<>>, MaxRowsL)

SearcheableFieldsByModels ==
    CommitWithin(Res(DB, "none", searcheable_fields_by_models), "searcheable_fields_by_models",
                 <<>>, MaxRowsL)

NextLife ==
    \/ LGetOrCreateMdir
    \/ LStoreDbfreg
    \/ LStorePrj
    \/ LStoreJgw
    \/ LStoreMdir
    \/ LSimpleSearch
    \/ FieldInfo
    \/ ModelToDict
    \/ RecordsAsList
    \/ GetSearcheableFields
    \/ SearcheableFieldsByModels

SpecLife == Init /\ [][NextLife]_vars

\* --------------------------------- an index is built, then asked a query
MaxRowsA == 3

\* satellite in ['Landsat-8']
CSatIn ==
    <<"s", "a", "t", "e", "l", "l", "i", "t", "e", " ", "i", "n", " ", "[", "'", "L",
      "a", "n", "d", "s", "a", "t", "-", "8", "'", "]">>

\* satellite not in ['Landsat-8']
CSatNotIn ==
    <<"s", "a", "t", "e", "l", "l", "i", "t", "e", " ", "n", "o", "t", " ", "i", "n",
      " ", "[", "'", "L", "a", "n", "d", "s", "a", "t", "-", "8", "'", "]">>

\* orbitid in [1, 2]
COrbitIn ==
    <<"o", "r", "b", "i", "t", "i", "d", " ", "i", "n", " ", "[", "1", ",", " ", "2",
      "]">>

\* created_at = 1  (an audit column)
CCreatedAt ==
    <<"c", "r", "e", "a", "t", "e", "d", "_", "a", "t", " ", "=", " ", "1">>

\* id = 1  (the primary key)
CId ==
    <<"i", "d", " ", "=", " ", "1">>

\* md_directory = 1  (a foreign key)
CMdDirectory ==
    <<"m", "d", "_", "d", "i", "r", "e", "c", "t", "o", "r", "y", " ", "=", " ", "1">>

\* the conditions the queries are made of
Conditions ==
    <<QSat, QCloud, QSatQuoted, QScale, CSatIn, CSatNotIn, COrbitIn, QUnknown,
      CCreatedAt, CId, CMdDirectory>>

\* a query: condition c1 alone (c2 = 0), or  c1 & c2
AskQueries ==
    {[c1 |-> i, c2 |-> 0] : i \in 1..Len(Conditions)}
        \cup {[c1 |-> i, c2 |-> j] : i, j \in {1, 2, 4, 5, 6, 8, 9}}

AskText(q) ==
    IF q.c2 = 0 THEN Conditions[q.c1]
    ELSE Conditions[q.c1] \o <<" ", "&", " ">> \o Conditions[q.c2]

\* the index asked holds one directory
AskDirs == {MPath(PA)}

\* no query was asked yet
Building == out.op \notin {"simple_search", "compile_query"}

AStoreDbfreg ==
    /\ Building
    /\ \E m \in AskDirs, rec \in {RecL8, RecL9} :
           CommitWithin(store_dbfreg(DB, m, rec), "store_dbfreg", rec, MaxRowsA)

AStorePrj ==
    /\ Building
    /\ \E m \in AskDirs :
           CommitWithin(store_prj(DB, m, CrsOk), "store_prj", CrsOk, MaxRowsA)

AStoreJgw ==
    /\ Building
    /\ \E m \in AskDirs, data \in JgwData :
           CommitWithin(store_jgw(DB, m, data), "store_jgw", data, MaxRowsA)

\* the query and the peewee build it is asked under
Asked(q, lib) == [c1 |-> q.c1, c2 |-> q.c2, lib |-> lib]

Ask ==
    /\ Building
    /\ \E lib \in Libs, q \in AskQueries :
           CommitWithin(simple_search(lib, DB, AskText(q)), "simple_search",
                        Asked(q, lib), MaxRowsA)

\* what compile_query gives: the number of expressions it and-ed, or the
\* exception and, for an unknown field, the name in its message
CompileResult(db, expr) ==
    IF expr.ok THEN Res(db, "none", Len(expr.v))
    ELSE Res(db, expr.err, IF "arg" \in DOMAIN expr THEN expr.arg ELSE "")

AskCompile ==
    /\ Building
    /\ \E lib \in Libs, q \in AskQueries :
           CommitWithin(CompileResult(DB, Compiled(lib, parse_simple_query(AskText(q)))),
                        "compile_query", Asked(q, lib), MaxRowsA)

NextAsk ==
    \/ AStoreDbfreg
    \/ AStorePrj
    \/ AStoreJgw
    \/ Ask
    \/ AskCompile

SpecAsk == Init /\ [][NextAsk]_vars

\* ---------------------------------------------------------------- parsing
\* Database.parse_simple_query alone, over query texts made of a field, an
\* operator and a value separated by single spaces; an absent part is the
\* empty text.

FieldWords ==
    {<<"s", "a", "t", "e", "l", "l", "i", "t", "e">>, <<"1", "x">>, <<"_", "x">>, <<>>}

OpWords ==
    {<<"=">>, <<"!", "=">>, <<"<">>, <<"<", "=">>, <<">">>, <<">", "=">>, <<"i", "n">>,
     <<"n", "o", "t", " ", "i", "n">>, <<"=", "=">>, <<"~">>, <<>>}

\* 10, ['a'], (1, 2), abc, the unclosed [1, and no value
ValueWords ==
    {<<"1", "0">>, <<"[", "'", "a", "'", "]">>, <<"(", "1", ",", " ", "2", ")">>,
     <<"a", "b", "c">>, <<"[", "1", ",">>, <<>>}

Segments == [f : FieldWords, op : OpWords, v : ValueWords]

SpaceBefore(word) == IF word = <<>> THEN <<>> ELSE <<" ">> \o word

\* the parts of a segment that are present, one space between them
SegText(seg) ==
    IF seg.f = <<>> THEN
        IF seg.op = <<>> THEN seg.v ELSE seg.op \o SpaceBefore(seg.v)
    ELSE seg.f \o SpaceBefore(seg.op) \o SpaceBefore(seg.v)

\* cloudperce <= 10, 1x = 10 and satellite ~ 10: the segments of the queries
\* of two conditions
GoodSeg == [f |-> <<"s", "a", "t", "e", "l", "l", "i", "t", "e">>, op |-> <<"<", "=">>, v |-> <<"1", "0">>]
BadFieldSeg == [f |-> <<"1", "x">>, op |-> <<"=">>, v |-> <<"1", "0">>]
BadOpSeg == [f |-> <<"s", "a", "t", "e", "l", "l", "i", "t", "e">>, op |-> <<"~">>, v |-> <<"1", "0">>]

\* a query: its segments, and whether a '&' follows the last one
ParseQueries ==
    {[segs |-> <<>>, trailing |-> FALSE]}
        \cup {[segs |-> <<seg>>, trailing |-> FALSE] : seg \in Segments}
        \cup {[segs |-> <<seg>>, trailing |-> TRUE] : seg \in {GoodSeg, BadFieldSeg}}
        \cup {[segs |-> <<s1, s2>>, trailing |-> FALSE] :
                  s1, s2 \in {GoodSeg, BadFieldSeg, BadOpSeg}}

RECURSIVE SegsText(_)
SegsText(segs) ==
    IF segs = <<>> THEN <<>>
    ELSE IF Len(segs) = 1 THEN SegText(segs[1])
    ELSE SegText(segs[1]) \o <<" ", "&", " ">> \o SegsText(Tail(segs))

ParseText(q) == SegsText(q.segs) \o (IF q.trailing THEN <<" ", "&">> ELSE <<>>)

\* what parse_simple_query gives: the operations, or the exception and the
\* hint of its message (no hint when the exception is not the parser's own)
ParseResult(db, parsed) ==
    IF parsed.ok THEN Res(db, "none", parsed.v)
    ELSE Res(db, parsed.err, IF "hint" \in DOMAIN parsed THEN <<parsed.hint>> ELSE <<>>)

ParseSimpleQuery ==
    \E q \in ParseQueries :
        Commit(ParseResult(DB, parse_simple_query(ParseText(q))), "parse_simple_query", q)

NextParse == ParseSimpleQuery

SpecParse == Init /\ [][NextParse]_vars

\* ---------------------------------------------------------------- statistics
\* Database.field_info over an index that is filled with DBF records of
\* cloudperce 0, 5 and 10, some of them more than once.

MaxRowsS == 4

StatsDirs == {MPath(PA)}

StatsRecords ==
    {[RecL8 EXCEPT !.cloudperce = PStr(text)] : text \in {<<"0">>, <<"5">>, <<"1", "0">>}}

StatsFields == {"cloudperce", "tarsize"}

SStoreDbfreg ==
    \E m \in StatsDirs, rec \in StatsRecords :
        CommitWithin(store_dbfreg(DB, m, rec), "store_dbfreg", rec, MaxRowsS)

SFieldInfo ==
    \E field_name \in StatsFields :
        CommitWithin(field_info(DB, field_name), "field_info", field_name, MaxRowsS)

NextStats ==
    \/ SStoreDbfreg
    \/ SFieldInfo

SpecStats == Init /\ [][NextStats]_vars

\* ---------------------------------------------------------------- the walk
\* model_to_dict call by call: the calls and loops still to run are a stack,
\* a step runs the one on top. visited and upper_level_model are the sets
\* all nested calls share; expanded lists the objects in the order they
\* were added to visited.

MaxRowsF == 3

\* an upper bound of the objects one call expands
MaxExpanded == 8

FlatDirs == {MPath(PA), MPath(PC)}

\* no call of model_to_dict was made yet
Filling == out.op # "model_to_dict:walk"

FStoreDbfreg ==
    /\ Filling
    /\ \E m \in FlatDirs :
           CommitWithin(store_dbfreg(DB, m, RecL8), "store_dbfreg", RecL8, MaxRowsF)

FStorePrj ==
    /\ Filling
    /\ \E m \in FlatDirs :
           CommitWithin(store_prj(DB, m, CrsOk), "store_prj", CrsOk, MaxRowsF)

FStoreJgw ==
    /\ Filling
    /\ \E m \in FlatDirs, data \in JgwData :
           CommitWithin(store_jgw(DB, m, data), "store_jgw", data, MaxRowsF)

CallOf(obj) == [t |-> "call", obj |-> obj]

\* for fkfield in model_obj._meta.refs: model_to_dict(related_model, ...)
RefCalls(db, obj) ==
    [i \in 1..Len(Refs(obj.model)) |->
        CallOf(Obj(Refs(obj.model)[i].model,
                   TableOf(db, obj.model)[obj.id][Refs(obj.model)[i].name]))]

\* for brmodel, brfields in model_obj._meta.model_backrefs.items()
BackrefLoops(obj) ==
    [i \in 1..Len(Backrefs(obj.model)) |->
        [t |-> "backref", br |-> Backrefs(obj.model)[i], obj |-> obj]]

\* for refmodel in getattr(model_obj, brfield.backref): model_to_dict(refmodel, ...)
BackrefCalls(db, br, obj) ==
    [i \in 1..Len(BackrefRows(db, br, obj)) |-> CallOf(BackrefRows(db, br, obj)[i])]

WalkState(stack, visited, upper, expanded) ==
    [stack |-> stack, visited |-> visited, upper |-> upper, expanded |-> expanded]

\* one call, or one round of the loop over the back references
WalkStep(db, item, w) ==
    IF item.t = "call" THEN
        IF Seen(item.obj, w) THEN WalkState(Tail(w.stack), w.visited, w.upper, w.expanded)
        ELSE WalkState(RefCalls(db, item.obj) \o BackrefLoops(item.obj) \o Tail(w.stack),
                       w.visited \cup {item.obj}, w.upper \cup {item.obj.model},
                       Append(w.expanded, item.obj))
    ELSE IF item.br.model \in w.upper THEN
        WalkState(Tail(w.stack), w.visited, w.upper, w.expanded)
    ELSE WalkState(BackrefCalls(db, item.br, item.obj) \o Tail(w.stack),
                   w.visited, w.upper, w.expanded)

\* every row of the index
Rowed(db) ==
    UNION {{Obj(ModelNames[k], i) : i \in 1..Len(TableOf(db, ModelNames[k]))} :
              k \in 1..Len(ModelNames)}

\* model_to_dict(model_obj) is called: visited and upper_level_model are
\* new and empty
WalkCall ==
    /\ Filling
    /\ \E obj \in Rowed(DB) :
           /\ out' = Call("model_to_dict:walk", obj, "running",
                          WalkState(<<CallOf(obj)>>, {}, {}, <<>>))
           /\ UNCHANGED <<mdirs, dbfs, prjs, axes, jgws, fs>>

\* the call returns once nothing is left to run
Returned(obj, w) ==
    Call("model_to_dict:walk", obj, IF w.stack = <<>> THEN "none" ELSE "running", w)

WalkNext ==
    /\ out.op = "model_to_dict:walk"
    /\ out.err = "running"
    /\ Len(out.ret.expanded) < MaxExpanded
    /\ out' = Returned(out.arg, WalkStep(DB, Head(out.ret.stack), out.ret))
    /\ UNCHANGED <<mdirs, dbfs, prjs, axes, jgws, fs>>

NextFlat ==
    \/ FStoreDbfreg
    \/ FStorePrj
    \/ FStoreJgw
    \/ WalkCall
    \/ WalkNext

\* a call that was started runs on: python runs the function to its end
SpecFlat == Init /\ [][NextFlat]_vars /\ WF_vars(WalkNext)

\* ---------------------------------------------------------------- claims
IsPrefix(s, t) == Len(s) <= Len(t) /\ SubSeq(t, 1, Len(s)) = s

WithToken(tbl, tok) == {i \in 1..Len(tbl) : tbl[i].date_str = tok}

\* C1: get_or_create_mdir with a path leaves exactly one row for the path's
\* date token and returns it; when the token already had a row, it returns
\* that row and leaves the table as it was (the path of the first call
\* stays); when it had none, the new row holds the path given.
C1_GetOrCreateSameIdentity ==
    [][(out'.op = "get_or_create_mdir" /\ out'.arg.t = "path") =>
        LET tok == ParentName(out'.arg.p)
        IN  /\ out'.err = "none"
            /\ WithToken(mdirs', tok) = {out'.ret}
            /\ WithToken(mdirs, tok) # {} =>
                   (out'.ret \in WithToken(mdirs, tok) /\ mdirs' = mdirs)
            /\ WithToken(mdirs, tok) = {} =>
                   mdirs'[out'.ret].path_str = PathStr(out'.arg.p)]_vars

\* a call with path B has returned the row stored with path A
C1_Witness ==
    /\ out.op = "get_or_create_mdir"
    /\ out.arg.t = "path"
    /\ out.ret \in 1..Len(mdirs)
    /\ mdirs[out.ret].date_str = ParentName(out.arg.p)
    /\ mdirs[out.ret].path_str # PathStr(out.arg.p)

\* C2: no two MetaDataDirectory rows have the same date token.
C2_DateTokenUnique ==
    \A i, j \in 1..Len(mdirs) : mdirs[i].date_str = mdirs[j].date_str => i = j

\* two directories are indexed, the first of them with rows of every kind
C2_Witness ==
    /\ Len(mdirs) = 2
    /\ \E d \in 1..Len(dbfs) : dbfs[d].md_directory = 1
    /\ \E p \in 1..Len(prjs) : prjs[p].md_directory = 1
    /\ \E j \in 1..Len(jgws) : jgws[j].md_directory = 1

\* C3: every DBFRecord, PRJ and JGW row references an existing
\* MetaDataDirectory row and every CoordinateSystemAxisEntry row an
\* existing PRJ row.
C3_ParentsExist ==
    /\ \A i \in 1..Len(dbfs) : dbfs[i].md_directory \in 1..Len(mdirs)
    /\ \A i \in 1..Len(prjs) : prjs[i].md_directory \in 1..Len(mdirs)
    /\ \A i \in 1..Len(jgws) : jgws[i].md_directory \in 1..Len(mdirs)
    /\ \A i \in 1..Len(axes) : axes[i].prj \in 1..Len(prjs)

\* a store operation given a path has just stored the only row of the
\* index next to the directory row it made
C3_Witness ==
    /\ out.op \in {"store_dbfreg", "store_prj", "store_jgw"}
    /\ out.err = "none"
    /\ Len(mdirs) = 1
    /\ Len(dbfs) + Len(prjs) + Len(jgws) = 1

\* C4: _store_jgw on a .jgw file whose .jpg does not exist raises
\* ValueError and adds no JGW row.
C4_MissingImageRejected ==
    [][(out'.op = "_store_jgw" /\ WithSuffix(out'.arg, "jpg") \notin Disk.jpg) =>
        (out'.err = "ValueError" /\ jgws' = jgws)]_vars

C4_Witness ==
    /\ out.op = "_store_jgw"
    /\ WithSuffix(out.arg, "jpg") \notin Disk.jpg
    /\ out.err = "ValueError"

\* the first file of the glob order whose .jpg is missing
FirstMissing(order) ==
    LET miss == {k \in 1..Len(order) : WithSuffix(order[k], "jpg") \notin Disk.jpg}
    IN  IF miss = {} THEN 0 ELSE CHOOSE k \in miss : \A j \in miss : k <= j

\* C5: when store_mdir has stored the attribute rows and the projection and
\* then raises on the .jgw file k whose image is missing, the rows stored
\* before stay (the tables only grew), the files before k are stored and no
\* file after k is.
C5_StopsAtMissingImage ==
    [][(/\ out'.op = "store_mdir"
        /\ out'.err = "ValueError"
        /\ Len(prjs') = Len(prjs) + 1
        /\ FirstMissing(out'.arg[2]) > 0) =>
        LET order == out'.arg[2]
            k == FirstMissing(order)
        IN  /\ mdirs' # <<>> /\ IsPrefix(mdirs, mdirs')
            /\ IsPrefix(dbfs, dbfs') /\ Len(dbfs') > Len(dbfs)
            /\ IsPrefix(prjs, prjs')
            /\ IsPrefix(axes, axes') /\ Len(axes') > Len(axes)
            /\ IsPrefix(jgws, jgws')
            /\ Len(jgws') = Len(jgws) + k - 1
            /\ \A j \in 1..(k - 1) : jgws'[Len(jgws) + j].path = FileStr(order[j])]_vars

\* store_mdir failed on the first of two .jgw files: the second is not stored
C5_Witness ==
    /\ out.op = "store_mdir"
    /\ out.err = "ValueError"
    /\ Len(out.arg[2]) = 2
    /\ FirstMissing(out.arg[2]) = 1
    /\ jgws = <<>>
    /\ Len(dbfs) = 1 /\ Len(prjs) = 1 /\ Len(axes) = 2

\* C6: the index is append-only: whatever ingestion, query, statistics or
\* flattening operation runs, every table keeps the rows it had, in place
\* and with every attribute unchanged (a repeated get-or-create with
\* another path leaves the stored path_str as it was), and simple_search,
\* field_info and model_to_dict leave all five tables as they were.
C6_AppendOnly ==
    [][/\ IsPrefix(mdirs, mdirs')
       /\ IsPrefix(dbfs, dbfs')
       /\ IsPrefix(prjs, prjs')
       /\ IsPrefix(axes, axes')
       /\ IsPrefix(jgws, jgws')
       /\ (out'.op \in {"simple_search", "field_info", "model_to_dict"} =>
               UNCHANGED <<mdirs, dbfs, prjs, axes, jgws>>)]_vars

\* get_or_create_mdir was called again for a stored date token with
\* another path, on an index that holds attribute, projection and image rows
C6_Witness ==
    /\ out.op = "get_or_create_mdir"
    /\ out.err = "none"
    /\ out.arg.t = "path"
    /\ out.ret \in 1..Len(mdirs)
    /\ mdirs[out.ret].path_str # PathStr(out.arg.p)
    /\ dbfs # <<>> /\ prjs # <<>> /\ jgws # <<>>

\* C7: each MetaDataDirectory has at most one PRJ row.
C7_AtMostOnePrj ==
    \A i, j \in 1..Len(prjs) : prjs[i].md_directory = prjs[j].md_directory => i = j

\* the same text with every "," written as "."
DotForm(t) == [i \in 1..Len(t) |-> IF t[i] = "," THEN "." ELSE t[i]]

\* column k of a JGW row, in the order of the lines of a .jgw file
JgwColumn(row, k) ==
    CASE k = 1 -> row.scale_x [] k = 2 -> row.rotation_y [] k = 3 -> row.rotation_x
      [] k = 4 -> row.scale_y [] k = 5 -> row.upper_left_x [] k = 6 -> row.upper_left_y

\* C8: a cloud percentage, or a line of a .jgw file, written with "," is
\* stored as the number the same text written with "." gives, and is
\* rejected when that text is no number.
C8_CommaAsDot ==
    /\ (out.op = "store_dbfreg" /\ out.arg \notin BadIntRecs) =>
           LET dot == PyFloatStr(DotForm(out.arg.cloudperce.s))
           IN  IF dot.ok
               THEN out.err = "none" /\ dbfs[out.ret].cloudperce = dot.v
               ELSE out.err = "ValueError" /\ dbfs = <<>>
    /\ (out.op = "_store_jgw" /\ fs.kind = "numeric") =>
           LET dot == PyFloatStr(DotForm(fs.text))
           IN  IF dot.ok
               THEN out.err = "none" /\ JgwColumn(jgws[1], fs.line) = dot.v
               ELSE out.err = "ValueError" /\ jgws = <<>>

\* "1,5" has been stored as 1.5
C8_Witness ==
    /\ out.op = "store_dbfreg"
    /\ out.err = "none"
    /\ out.arg.cloudperce = PStr(<<"1", ",", "5">>)
    /\ dbfs[out.ret].cloudperce = 15 * Pow10(Scale - 1)

\* C9: store_dbfreg given a non-numeric value for tarsize, orbitid,
\* scenepath or scenerow raises and stores no DBFRecord row.
C9_NonNumericIntRejected ==
    (out.op = "store_dbfreg" /\ out.arg \in BadIntRecs) =>
        (out.err \in {"ValueError", "TypeError"} /\ out.ret = 0 /\ dbfs = <<>>)

C9_Witness ==
    /\ out.op = "store_dbfreg"
    /\ out.arg = [RecL8 EXCEPT !.scenerow = PStr(<<"x">>)]
    /\ out.err = "ValueError"

\* C10: simple_search returns each matching JGW at most once: whatever the
\* store and the query, no JGW row appears twice in the result, also when
\* its directory holds several DBFRecord rows or several axis entries
\* that satisfy the conditions.
C10_EachJgwOnce ==
    (out.op = "simple_search" /\ out.err = "none") =>
        /\ \A i \in 1..Len(out.ret) : out.ret[i] \in 1..Len(jgws)
        /\ \A i, k \in 1..Len(out.ret) : out.ret[i] = out.ret[k] => i = k

\* a search on the satellite gave a JGW whose directory has two DBFRecord
\* rows of that satellite and a PRJ with two axis entries
C10_Witness ==
    /\ out.op = "simple_search"
    /\ out.arg = "QSat"
    /\ out.err = "none"
    /\ Len(out.ret) = 1
    /\ Cardinality({d \in 1..Len(dbfs) :
                       /\ dbfs[d].md_directory = jgws[out.ret[1]].md_directory
                       /\ dbfs[d].satellite = "Landsat-8"}) >= 2
    /\ Cardinality({a \in 1..Len(axes) :
                       prjs[axes[a].prj].md_directory = jgws[out.ret[1]].md_directory}) >= 2

\* the DBFRecord rows the joins of simple_search pair with JGW j: those of
\* its directory, if the directory has a PRJ with an axis entry
Joined(j) ==
    {d \in 1..Len(dbfs) :
        /\ dbfs[d].md_directory = jgws[j].md_directory
        /\ \E a \in 1..Len(axes) : prjs[axes[a].prj].md_directory = jgws[j].md_directory}

\* C11: a condition on a text field with the value in quotes,
\* satellite = 'Landsat-8', matches the rows whose stored value is the
\* text without the quotes: the search returns every JGW joined with a
\* DBFRecord whose satellite is Landsat-8.
C11_QuotedValueMatches ==
    (out.op = "simple_search" /\ AskText(out.arg) = QSatQuoted) =>
        /\ out.err = "none"
        /\ \A j \in 1..Len(jgws) :
               (\E d \in Joined(j) : dbfs[d].satellite = "Landsat-8") =>
                   j \in SeqToSet(out.ret)

\* C12: the queries  c1 & c2  and  c2 & c1  give the same set of JGW rows
\* on every index (and one of them raises only if the other does), and a
\* condition repeated,  c1 & c1,  gives what c1 alone gives.
C12_ConjunctionCommutes ==
    (out.op = "simple_search" /\ out.arg.c2 # 0) =>
        LET swapped == simple_search(out.arg.lib, DB,
                                     AskText([c1 |-> out.arg.c2, c2 |-> out.arg.c1]))
            alone == simple_search(out.arg.lib, DB, Conditions[out.arg.c1])
        IN  /\ (out.err = "none") <=> (swapped.err = "none")
            /\ out.err = "none" => SeqToSet(out.ret) = SeqToSet(swapped.ret)
            /\ out.arg.c1 = out.arg.c2 =>
                   /\ out.err = alone.err
                   /\ SeqToSet(out.ret) = SeqToSet(alone.ret)

\* satellite = Landsat-8 & scale_x > 0  returned nothing from an index
\* whose JGW is joined with a Landsat-9 row: the second condition alone
\* admits it, the first does not
C12_Witness ==
    /\ out.op = "simple_search"
    /\ AskText(out.arg) = QSat \o <<" ", "&", " ">> \o QScale
    /\ out.err = "none"
    /\ out.ret = <<>>
    /\ \E j \in 1..Len(jgws) : \E d \in Joined(j) : dbfs[d].satellite = "Landsat-9"

\* the grammar of a condition:  <field> <op> <value>
IsFieldWord(f) ==
    /\ f # <<>>
    /\ f[1] \in Lower \cup Upper
    /\ \A i \in 1..Len(f) : f[i] \in WordChars

MembershipOps == {<<"i", "n">>, <<"n", "o", "t", " ", "i", "n">>}

QueryOps == {<<"=">>, <<"!", "=">>, <<"<">>, <<"<", "=">>, <<">">>, <<">", "=">>} \cup MembershipOps

\* the value words that are a literal list or tuple
CollectionWords == {<<"[", "'", "a", "'", "]">>, <<"(", "1", ",", " ", "2", ")">>}

WellFormed(seg) ==
    /\ IsFieldWord(seg.f)
    /\ seg.op \in QueryOps
    /\ seg.v # <<>>
    /\ seg.op \in MembershipOps => seg.v \in CollectionWords

\* the texts of the segments of q that are not of the form
Offending(q) ==
    {SegText(q.segs[i]) : i \in {k \in 1..Len(q.segs) : ~WellFormed(q.segs[k])}}
        \cup (IF q.segs = <<>> \/ q.trailing THEN {<<>>} ELSE {})

\* C13: parse_simple_query fails with the query syntax error, naming an
\* offending segment, whenever a segment of the query is not of the form
\* <field> <op> <value>: a field that is not [A-Za-z][A-Za-z0-9_]*, an operator
\* that is not one of the eight, a missing part, the empty query, the empty
\* segment after a trailing '&', or an in / not in whose value is not a
\* literal list or tuple.
C13_MalformedIsQuerySyntaxError ==
    (out.op = "parse_simple_query" /\ Offending(out.arg) # {}) =>
        /\ out.err = "ValueError"
        /\ out.ret # <<>>
        /\ PyStrip(out.ret[1]) \in Offending(out.arg)

\* satellite ==
DoubledOperator == <<"s", "a", "t", "e", "l", "l", "i", "t", "e", " ", "=", "=">>

\* C14: the query "satellite ==" (a doubled operator and no value) fails with
\* the query syntax error and gives no operation.
C14_DoubledOperatorFails ==
    (out.op = "parse_simple_query" /\ ParseText(out.arg) = DoubledOperator) =>
        out.err = "ValueError"

\* the conditions of Conditions on a field that is not searcheable, and the
\* field each of them names
NotSearcheable == (8 :> "unknownfield") @@ (9 :> "created_at") @@ (10 :> "id") @@ (11 :> "md_directory")

FirstUnknown(q) ==
    IF q.c1 \in DOMAIN NotSearcheable THEN NotSearcheable[q.c1] ELSE NotSearcheable[q.c2]

\* C15: a query with a condition on a field that is not in the catalog
\* (unknownfield, created_at, id, md_directory) makes compile_query fail with
\* the unknown-field error naming the first such field in query order, and
\* simple_search fails with it without returning rows.
C15_UnknownFieldFails ==
    (/\ out.op \in {"compile_query", "simple_search"}
     /\ (out.arg.c1 \in DOMAIN NotSearcheable \/ out.arg.c2 \in DOMAIN NotSearcheable)) =>
        /\ out.err = "ValueError"
        /\ out.op = "compile_query" => out.ret = FirstUnknown(out.arg)
        /\ out.op = "simple_search" => out.ret = <<>>

\* the DBF rows that are a member, as condition c of Conditions has it:
\* satellite in ['Landsat-8'], satellite not in ['Landsat-8'], orbitid in [1, 2]
Member(c, row) ==
    CASE c = 5 -> row.satellite = "Landsat-8"
      [] c = 6 -> row.satellite # "Landsat-8"
      [] c = 7 -> row.orbitid \in {1, 2}

\* C16: a query of one in or not in condition on a searcheable field with a
\* non-empty literal list compiles without error, and its search returns
\* exactly the JGW joined with a row whose value is (for not in: is not) a
\* member of the list.
C16_MembershipSelects ==
    (out.op \in {"compile_query", "simple_search"} /\ out.arg.c2 = 0 /\ out.arg.c1 \in {5, 6, 7}) =>
        /\ out.err = "none"
        /\ out.op = "simple_search" =>
               SeqToSet(out.ret) =
                   {j \in 1..Len(jgws) : \E d \in Joined(j) : Member(out.arg.c1, dbfs[d])}

\* condition c of Conditions (one of the seven on searcheable fields) as
\* a predicate on JGW j and DBF row d
Satisfies(c, j, d) ==
    CASE c \in {1, 3} -> dbfs[d].satellite = "Landsat-8"
      [] c = 2 -> dbfs[d].cloudperce <= Float(10)
      [] c = 4 -> jgws[j].scale_x > 0
      [] c \in {5, 6, 7} -> Member(c, dbfs[d])

ConditionsOf(q) == {q.c1} \cup (IF q.c2 = 0 THEN {} ELSE {q.c2})

\* C17: simple_search with a query of well-formed conditions on searcheable
\* fields, on an index with no joined row that satisfies them all (the
\* empty index is one), returns the empty sequence and raises nothing.
C17_NoMatchIsEmpty ==
    (/\ out.op = "simple_search"
     /\ ConditionsOf(out.arg) \subseteq 1..7
     /\ \A j \in 1..Len(jgws) : \A d \in Joined(j) :
            \E c \in ConditionsOf(out.arg) : ~Satisfies(c, j, d)) =>
        /\ out.err = "none"
        /\ out.ret = <<>>

\* the audit pair, the primary key and the foreign keys
ExcludedNames == {"created_at", "updated_at", "id", "md_directory", "prj"}

\* the attributes the five entity kinds declare, other than the excluded
DeclaredFields ==
    {fld \in UNION {SeqToSet(FieldsOf(k)) : k \in 1..Len(ModelNames)} :
        fld.name \notin ExcludedNames}

C19_SharedNameUnderBothKinds ==
    /\ out.op = "get_searcheable_fields" =>
           \A fld \in DeclaredFields : \E name \in DOMAIN out.ret : out.ret[name] = fld
    /\ out.op = "searcheable_fields_by_models" =>
           \A fld \in DeclaredFields :
               /\ fld.model \in DOMAIN out.ret
               /\ \E i \in 1..Len(out.ret[fld.model]) : out.ret[fld.model][i].name = fld.name

\* the distinct values stored for cloudperce
Stored == {dbfs[i].cloudperce : i \in 1..Len(dbfs)}

StatsOverDistinct ==
    (out.op = "field_info" /\ out.arg = "cloudperce" /\ out.err = "none") =>
        /\ out.ret.stats.Count = Cardinality(Stored)
        /\ out.ret.stats.Uniques = Cardinality(Stored)
        /\ out.ret.stats.Min \in Stored /\ \A v \in Stored : out.ret.stats.Min <= v
        /\ out.ret.stats.Max \in Stored /\ \A v \in Stored : v <= out.ret.stats.Max
        /\ Stored = {Float(0), Float(5), Float(10)} =>
               /\ out.ret.stats.Count = 3 /\ out.ret.stats.Uniques = 3
               /\ out.ret.stats.Min = Float(0) /\ out.ret.stats.Max = Float(10)
               /\ out.ret.stats.Mean.num = Float(5) * out.ret.stats.Mean.den
               /\ out.ret.stats.Median.num = Float(5) * out.ret.stats.Median.den

\* store_dbfreg appends one row to the DBF table: the index it was called on
\* is the index without the last DBF row
BeforeStore == [DB EXCEPT !.dbfs = SubSeq(dbfs, 1, Len(dbfs) - 1)]

DuplicateChangesNothing ==
    (/\ out.op = "store_dbfreg" /\ out.err = "none"
     /\ \E i \in 1..(Len(dbfs) - 1) : dbfs[i].cloudperce = dbfs[Len(dbfs)].cloudperce) =>
        field_info(DB, "cloudperce").ret = field_info(BeforeStore, "cloudperce").ret

\* C20: field_info on the numeric field cloudperce computes over the set of
\* distinct stored values: Count and Uniques are the number of distinct
\* values, Min and Max the smallest and the largest, storing a record whose
\* value is already stored changes none of the statistics, and on the values
\* 0, 5, 10 it gives Count 3, Uniques 3, Min 0, Max 10, Mean 5, Median 5.
C20_StatsOverDistinctValues == StatsOverDistinct /\ DuplicateChangesNothing

C20_Witness ==
    /\ out.op = "field_info" /\ out.arg = "cloudperce" /\ out.err = "none"
    /\ Stored = {Float(0), Float(5), Float(10)}
    /\ Len(dbfs) = 4
    /\ out.ret.stats.Count = 3

\* C21: field_info on the numeric field cloudperce with at most one distinct
\* stored value returns its statistics, with standard deviation 0: with one
\* value, and with no row at all (Count 0).
C21_FewValuesStdZero ==
    (out.op = "field_info" /\ out.arg = "cloudperce" /\ Cardinality(Stored) <= 1) =>
        /\ out.err = "none"
        /\ out.ret.stats.Count = Cardinality(Stored)
        /\ out.ret.stats.Std.num = 0

\* the objects of a tree, parents before children
RECURSIVE PreOrder(_), PreOrderAll(_)
PreOrder(tree) ==
    <<Obj(tree.model, tree.id)>>
        \o PreOrderAll([i \in 1..Len(tree.refs) |-> <<tree.refs[i].data>>])
        \o PreOrderAll([i \in 1..Len(tree.backrefs) |-> tree.backrefs[i].data])

PreOrderAll(forests) ==
    IF forests = <<>> THEN <<>>
    ELSE (IF Head(forests) = <<>> THEN <<>>
          ELSE PreOrder(Head(Head(forests))) \o PreOrderAll(<<Tail(Head(forests))>>))
         \o PreOrderAll(Tail(forests))

NoDuplicate(s) == \A i, j \in 1..Len(s) : s[i] = s[j] => i = j

\* no object is expanded twice, and the tree of model_to_dict holds the
\* objects expanded, each a row of the index, the object asked at its root
ExpandedOnce ==
    out.op = "model_to_dict:walk" =>
        /\ NoDuplicate(out.ret.expanded)
        /\ out.err = "none" =>
               /\ PreOrder(model_to_dict(DB, out.arg).ret) = out.ret.expanded
               /\ out.ret.expanded[1] = out.arg
               /\ SeqToSet(out.ret.expanded) \subseteq Rowed(DB)

\* C22: every call of model_to_dict, on any object of the index, comes to
\* its end and returns a finite tree, although a child refers to its parent
\* and the parent's back reference leads to the child again; no object is
\* expanded more than once in one call.
C22_FlatteningTerminates ==
    /\ []ExpandedOnce
    /\ (out.op = "model_to_dict:walk" /\ out.err = "running") ~>
           (out.op = "model_to_dict:walk" /\ out.err = "none")

C22_Witness ==
    /\ out.op = "model_to_dict:walk"
    /\ out.err = "none"
    /\ out.arg.model = "DBFRecord"
    /\ Len(out.ret.expanded) >= 4

\* the collection a tree holds under the name of a child kind; empty when
\* the tree has no such key
Collection(tree, name) ==
    IF \E i \in 1..Len(tree.backrefs) : tree.backrefs[i].name = name
    THEN tree.backrefs[CHOOSE i \in 1..Len(tree.backrefs) : tree.backrefs[i].name = name].data
    ELSE <<>>

\* the tree a tree holds under the name of a foreign key
Related(tree, name) ==
    tree.refs[CHOOSE i \in 1..Len(tree.refs) : tree.refs[i].name = name].data

\* the rows of a table that refer to row id through field
Children(tbl, field, id) == {i \in 1..Len(tbl) : tbl[i][field] = id}

\* C23: the tree of a JGW holds, under its directory, a DBFRecord
\* collection with one entry for every DBFRecord row of the directory, and
\* the tree of a PRJ holds a CoordinateSystemAxisEntry collection with one
\* entry for every axis entry of the PRJ.
C23_AllChildrenInlined ==
    /\ (out.op = "model_to_dict" /\ out.arg.model = "JGW") =>
           /\ \E i \in 1..Len(out.ret.refs) : out.ret.refs[i].name = "md_directory"
           /\ {Collection(Related(out.ret, "md_directory"), "DBFRecord")[i].id :
                   i \in 1..Len(Collection(Related(out.ret, "md_directory"), "DBFRecord"))}
                  = Children(dbfs, "md_directory", jgws[out.arg.id].md_directory)
    /\ (out.op = "model_to_dict" /\ out.arg.model = "PRJ") =>
           {Collection(out.ret, "CoordinateSystemAxisEntry")[i].id :
                   i \in 1..Len(Collection(out.ret, "CoordinateSystemAxisEntry"))}
              = Children(axes, "prj", out.arg.id)

\* the trees within a tree, parents before children
RECURSIVE Subtrees(_), SubtreesAll(_)
Subtrees(tree) ==
    <<tree>>
        \o SubtreesAll([i \in 1..Len(tree.refs) |-> <<tree.refs[i].data>>])
        \o SubtreesAll([i \in 1..Len(tree.backrefs) |-> tree.backrefs[i].data])

SubtreesAll(forests) ==
    IF forests = <<>> THEN <<>>
    ELSE (IF Head(forests) = <<>> THEN <<>>
          ELSE Subtrees(Head(Head(forests))) \o SubtreesAll(<<Tail(Head(forests))>>))
         \o SubtreesAll(Tail(forests))

\* the object a tree refers to by the foreign key ref
Target(t, ref) == Obj(ref.model, TableOf(DB, t.model)[t.id][ref.name])

\* the positions where the walk meets an object again: tree p of the trees
\* and a foreign key of it whose object is the root of an earlier tree
MetAgain(trees) ==
    {x \in (1..Len(trees)) \X {"md_directory", "prj"} :
        \E i \in 1..Len(Refs(trees[x[1]].model)) :
            /\ Refs(trees[x[1]].model)[i].name = x[2]
            /\ \E q \in 1..(x[1] - 1) :
                   Obj(trees[q].model, trees[q].id) = Target(trees[x[1]], Refs(trees[x[1]].model)[i])}

HasKey(t, name) == \E i \in 1..Len(t.refs) : t.refs[i].name = name

\* C24, as claimed: where model_to_dict meets an object it has flattened
\* already, the tree holds a marker under that key.
C24_VisitedLeavesMarker ==
    out.op = "model_to_dict" =>
        \A x \in MetAgain(Subtrees(out.ret)) : HasKey(Subtrees(out.ret)[x[1]], x[2])

\* C24, amended: where model_to_dict meets an object it has flattened
\* already, the tree holds nothing for it: the key is absent, and no object
\* is the root of two trees.
C24_VisitedIsOmitted ==
    out.op = "model_to_dict" =>
        /\ \A x \in MetAgain(Subtrees(out.ret)) : ~HasKey(Subtrees(out.ret)[x[1]], x[2])
        /\ NoDuplicate(PreOrder(out.ret))

C24_Witness ==
    /\ out.op = "model_to_dict"
    /\ out.arg.model = "JGW"
    /\ \E x \in MetAgain(Subtrees(out.ret)) : Subtrees(out.ret)[x[1]].model = "DBFRecord"

\* two different JGW rows of one directory
SharedDirectory(a, b) ==
    /\ a.model = "JGW" /\ b.model = "JGW" /\ a.id # b.id
    /\ jgws[a.id].md_directory = jgws[b.id].md_directory

\* C25: the tree records_as_list gives for the record at any position is
\* the tree model_to_dict gives for that record alone, and two JGW records
\* of one directory both hold the same subtree of that directory.
C25_EachRecordFlattenedAlone ==
    out.op = "records_as_list" =>
        /\ Len(out.ret) = Len(out.arg)
        /\ \A i \in 1..Len(out.arg) : out.ret[i] = model_to_dict(DB, out.arg[i]).ret
        /\ \A i, j \in 1..Len(out.arg) :
               SharedDirectory(out.arg[i], out.arg[j]) =>
                   /\ HasKey(out.ret[i], "md_directory")
                   /\ Related(out.ret[i], "md_directory") = Related(out.ret[j], "md_directory")

C25_Witness ==
    /\ out.op = "records_as_list"
    /\ Len(out.arg) = 2
    /\ SharedDirectory(out.arg[1], out.arg[2])
    /\ HasKey(out.ret[2], "md_directory")
    /\ Related(out.ret[2], "md_directory").backrefs # <<>>

\* the directory of JGW j has an attribute row, and a projection with an
\* axis entry
Complete(j) ==
    /\ Children(dbfs, "md_directory", jgws[j].md_directory) # {}
    /\ \E p \in Children(prjs, "md_directory", jgws[j].md_directory) :
           Children(axes, "prj", p) # {}

\* C26: simple_search returns a JGW only if its directory has a DBFRecord
\* and a PRJ with an axis entry; asked scale_x > 0, which every stored JGW
\* satisfies, it returns the JGWs of such directories and no other.
C26_OnlyFullyJoinedJgws ==
    (out.op = "simple_search" /\ out.err = "none") =>
        /\ \A i \in 1..Len(out.ret) : Complete(out.ret[i])
        /\ out.arg = "QScale" =>
               SeqToSet(out.ret) = {j \in 1..Len(jgws) : Complete(j)}

C26_Witness ==
    /\ out.op = "simple_search" /\ out.err = "none" /\ out.arg = "QScale"
    /\ out.ret # <<>>
    /\ \E j \in 1..Len(jgws) : ~Complete(j) /\ j \notin SeqToSet(out.ret)

\* the rows a step appended to a table
NewRows(before, after) == SubSeq(after, Len(before) + 1, Len(after))

\* the MetaDataDirectory rows of a date token
Known(token) == {i \in 1..Len(mdirs) : mdirs[i].date_str = token}

\* the id of the MetaDataDirectory of path after store_mdir(path)
DirectoryOf(path) ==
    IF Known(ParentName(path)) = {} THEN Len(mdirs) + 1
    ELSE CHOOSE i \in Known(ParentName(path)) : \A j \in Known(ParentName(path)) : i <= j

\* the path stored for the date token of path, or path if it is new
StoredPath(path) ==
    IF Known(ParentName(path)) = {} THEN path ELSE PathOf(mdirs[DirectoryOf(path)].path_str)

\* the records of the .dbf file, and the projection of the .prj file, of
\* the date token of path in directory dir
RecordsAt(dir, path) ==
    (CHOOSE x \in Disk.dbf : x.path = File(dir, ParentName(path), "dbf")).records

CrsAt(dir, path) ==
    (CHOOSE x \in Disk.prj : x.path = File(dir, ParentName(path), "prj")).crs

\* store_mdir(path) took the attribute rows from directory dbfdir and the
\* projection and the .jgw files from path, and attached every new row to
\* the one MetaDataDirectory of the date token
ReadFrom(path, dbfdir) ==
    /\ mdirs' = IF Known(ParentName(path)) = {}
                THEN Append(mdirs, [date_str |-> ParentName(path), path_str |-> PathStr(path)])
                ELSE mdirs
    /\ Len(NewRows(dbfs, dbfs')) = Len(RecordsAt(dbfdir, path))
    /\ \A k \in 1..Len(NewRows(dbfs, dbfs')) :
           /\ NewRows(dbfs, dbfs')[k].satellite = RecordsAt(dbfdir, path)[k].satellite
           /\ NewRows(dbfs, dbfs')[k].md_directory = DirectoryOf(path)
    /\ Len(NewRows(prjs, prjs')) = 1
    /\ NewRows(prjs, prjs')[1].name = CrsAt(path, path).name
    /\ NewRows(prjs, prjs')[1].md_directory = DirectoryOf(path)
    /\ \A k \in 1..Len(NewRows(jgws, jgws')) :
           /\ NewRows(jgws, jgws')[k].path \in {FileStr(f) : f \in Glob(path)}
           /\ NewRows(jgws, jgws')[k].md_directory = DirectoryOf(path)
    /\ out'.err = "none" => Len(NewRows(jgws, jgws')) = Cardinality(Glob(path))

StoreMdirReadsStoredDbf ==
    out'.op = "store_mdir" => ReadFrom(out'.arg[1], StoredPath(out'.arg[1]))

\* C27: store_mdir(B) reads the .dbf file from the path stored for the date
\* token of B (A, when the token is known under A; B, when it is new) and
\* the .prj and .jgw files from B, and attaches all new rows to the one
\* MetaDataDirectory of the token.
C27_DbfFromStoredPath == [][StoreMdirReadsStoredDbf]_vars

C27_Witness ==
    /\ out.op = "store_mdir" /\ out.arg[1] = PB
    /\ Len(mdirs) = 1 /\ mdirs[1].path_str = PathStr(PA)
    /\ Len(dbfs) = 1 /\ dbfs[1].satellite = "Landsat-8"
    /\ Len(prjs) = 1 /\ prjs[1].name = "GCS_WGS_1984"
    /\ Len(jgws) = 1 /\ jgws[1].path = FileStr(File(PB, "s1", "jgw"))

\* the directories of a traversal, in its order
Traversed(metadata_dirs) == SelectSeq(metadata_dirs, IsDir)

\* the ingestion of directory mdir raises (in this archive, whatever the
\* index holds)
Raises(mdir, orders) == store_mdir(EmptyDB, mdir, orders[mdir]).err # "none"

\* the position of the first directory whose ingestion raises, or one past
\* the last
FirstRaising(dirs, orders) ==
    IF \E i \in 1..Len(dirs) : Raises(dirs[i], orders)
    THEN CHOOSE i \in 1..Len(dirs) :
             /\ Raises(dirs[i], orders)
             /\ \A j \in 1..(i - 1) : ~Raises(dirs[j], orders)
    ELSE Len(dirs) + 1

\* the date tokens of a table of directories
Tokens(tbl) == {tbl[i].date_str : i \in 1..Len(tbl)}

\* the step stored a JGW row for file f
JgwStored(f) ==
    \E k \in 1..Len(NewRows(jgws, jgws')) : NewRows(jgws, jgws')[k].path = FileStr(f)

\* the step attached a new DBFRecord row to the directory of mdir
DbfStored(mdir) ==
    \E k \in 1..Len(NewRows(dbfs, dbfs')) :
        mdirs'[NewRows(dbfs, dbfs')[k].md_directory].date_str = ParentName(mdir)

\* the step stored the projection of mdir
PrjStored(mdir) ==
    \E k \in 1..Len(NewRows(prjs, prjs')) :
        /\ NewRows(prjs, prjs')[k].name = CrsAt(mdir, mdir).name
        /\ mdirs'[NewRows(prjs, prjs')[k].md_directory].date_str = ParentName(mdir)

FullyStored(mdir) ==
    /\ ParentName(mdir) \in Tokens(mdirs')
    /\ DbfStored(mdir)
    /\ PrjStored(mdir)
    /\ \A f \in Glob(mdir) : JgwStored(f)

PartlyStored(mdir) ==
    /\ ParentName(mdir) \in Tokens(mdirs')
    /\ DbfStored(mdir)
    /\ \E f \in Glob(mdir) : ~JgwStored(f)

\* nothing of mdir is stored: none of its files, and no row for its
\* directory unless the token is that of a directory in before
NothingStored(mdir, before) ==
    /\ \A f \in Glob(mdir) : ~JgwStored(f)
    /\ ParentName(mdir) \notin {ParentName(d) : d \in before} =>
           /\ ParentName(mdir) \in Tokens(mdirs') => ParentName(mdir) \in Tokens(mdirs)
           /\ ~DbfStored(mdir)
           /\ \A k \in 1..Len(NewRows(prjs, prjs')) :
                  mdirs'[NewRows(prjs, prjs')[k].md_directory].date_str # ParentName(mdir)

StopsAt(dirs, first) ==
    /\ out'.err = "none" <=> first > Len(dirs)
    /\ \A i \in 1..Len(dirs) :
           /\ i < first => FullyStored(dirs[i])
           /\ i = first => PartlyStored(dirs[i])
           /\ i > first => NothingStored(dirs[i], {dirs[j] : j \in 1..first})
    /\ Len(NewRows(prjs, prjs')) = IF first > Len(dirs) THEN Len(dirs) ELSE first

PopulateStopsAtFirstFailure ==
    out'.op = "populate_db" =>
        StopsAt(Traversed(out'.arg.dirs),
                FirstRaising(Traversed(out'.arg.dirs), out'.arg.orders))

\* C28: populate_db ingests the metadata directories in traversal order
\* and stops at the first whose ingestion raises: the directories before it
\* are fully stored, the failing one partly, the ones after it not at all.
C28_StopsAtFirstFailure == [][PopulateStopsAtFirstFailure]_vars

C28_Witness ==
    /\ out.op = "populate_db" /\ out.err # "none"
    /\ Traversed(out.arg.dirs) = <<PA, PC, PB>>
    /\ Len(jgws) = 1 /\ Len(prjs) = 2 /\ Len(dbfs) = 3
    /\ Tokens(mdirs) = {"d1", "d2"}

\* the directory argument names a date token the index does not know
NewToken(m) == m.t = "path" /\ Known(ParentName(m.p)) = {}

\* the id of the MetaDataDirectory the directory argument stands for
Directory(m) == IF m.t = "reg" THEN m.id ELSE DirectoryOf(m.p)

\* the axis entries of a projection before the first that is refused
AxesBefore(axis) ==
    SubSeq(axis, 1, (CHOOSE i \in 1..Len(axis) :
                         /\ axis[i].unit.t # "dict"
                         /\ \A j \in 1..(i - 1) : axis[j].unit.t = "dict") - 1)

\* what a failed store leaves behind
LeftBehind(m, data) ==
    /\ mdirs' = IF NewToken(m)
                THEN Append(mdirs, [date_str |-> ParentName(m.p), path_str |-> PathStr(m.p)])
                ELSE mdirs
    /\ dbfs' = dbfs
    /\ jgws' = jgws
    /\ IF out'.op = "store_prj" /\ out'.err = "TypeError"
       THEN /\ Len(prjs') = Len(prjs) + 1
            /\ SubSeq(prjs', 1, Len(prjs)) = prjs
            /\ prjs'[Len(prjs')].md_directory = Directory(m)
            /\ Len(NewRows(axes, axes')) = Len(AxesBefore(data.coordinate_system.axis))
            /\ \A k \in 1..Len(NewRows(axes, axes')) :
                   /\ NewRows(axes, axes')[k].prj = Len(prjs')
                   /\ NewRows(axes, axes')[k].name = AxesBefore(data.coordinate_system.axis)[k].name
       ELSE prjs' = prjs /\ axes' = axes

FailedStoreLeavesRows ==
    (out'.op \in {"store_dbfreg", "store_prj", "store_jgw"} /\ out'.err # "none") =>
        LeftBehind(out'.arg.mdir, out'.arg.data)

\* C29: a store_dbfreg, store_prj or store_jgw call that fails has created
\* the MetaDataDirectory row of a new date token all the same, and a
\* store_prj that fails on an axis entry leaves the PRJ row and the axis
\* entries before the failing one; nothing else is stored.
C29_FailedStoreNotNeutral == [][FailedStoreLeavesRows]_vars

C29_Witness ==
    /\ out.op = "store_prj" /\ out.err = "TypeError"
    /\ out.arg.mdir = MPath(PC)
    /\ Len(mdirs) = 1 /\ mdirs[1].date_str = "d2"
    /\ Len(prjs) = 1 /\ Len(axes) = 1 /\ dbfs = <<>> /\ jgws = <<>>
====
